---------------------------- MODULE Spec2Model ----------------------------
(***************************************************************************)
(* DocDB document keys (src/yb/docdb/doc_key.cc): DocKey and SubDocKey     *)
(* encoding, decoding, ordering, prefix tests, seek sentinels and the      *)
(* bloom-filter key projection.                                            *)
(*                                                                         *)
(* A byte string (KeyBytes, Slice) is a sequence of integers 0..255.  The  *)
(* primitive value codec, the hybrid time codec and the tag values live    *)
(* in files outside src/ and are modelled from the specification's         *)
(* contract: a leading tag byte, an order-preserving, prefix-free payload. *)
(***************************************************************************)
EXTENDS Integers, Sequences, FiniteSets, TLC

VARIABLES key, other, op, out

vars == <<key, other, op, out>>

(***************************************************************************)
(* Bounds of the model.                                                    *)
(***************************************************************************)
\* Largest number of components (hashed + range + subkeys) of one key.
MaxComponents == 2
\* Hybrid times of the model are 1..MaxHt.
MaxHt == 2

(***************************************************************************)
(* ValueType tags.                                                         *)
(***************************************************************************)
kIntentPrefix == 10
kGroupEnd == 33
kHybridTime == 35
kUInt16Hash == 71
kInt32 == 72
kString == 83
kMaxByte == 255

\* The hash value DocKey::Clear leaves behind.
kClearedHash == 57005

\* DocHybridTime::kInvalid: no hybrid time.
kInvalidHt == 255

Min(a, b) == IF a <= b THEN a ELSE b

Sign(n) == IF n < 0 THEN -1 ELSE IF n > 0 THEN 1 ELSE 0

DropFirst(s, n) == SubSeq(s, n + 1, Len(s))

\* Slice::compare: unsigned bytes, lexicographic, a proper prefix sorts first.
ByteCompare(x, y) ==
  LET n == Min(Len(x), Len(y))
      diff == {i \in 1..n : x[i] # y[i]}
  IN  IF diff = {}
        THEN Sign(Len(x) - Len(y))
        ELSE LET i == CHOOSE j \in diff : \A l \in diff : j <= l
             IN  IF x[i] < y[i] THEN -1 ELSE 1

(***************************************************************************)
(* Primitive values: a type tag and a value.                               *)
(***************************************************************************)
Int32(v) == [type |-> kInt32, val |-> v]

String(s) == [type |-> kString, val |-> s]

\* A default-constructed PrimitiveValue (what emplace_back() creates).
NullPrimitive == [type |-> 0, val |-> 0]

PrimitiveValues == {Int32(-1), String(<<97>>)}

IsPrimitiveValueType(t) == t \in {kUInt16Hash, kInt32, kString}

\* Zero-encoded string body: 0 becomes 0 1, the string ends with 0 0.
RECURSIVE ZeroEncode(_)
ZeroEncode(s) ==
  IF s = <<>> THEN <<0, 0>>
  ELSE (IF Head(s) = 0 THEN <<0, 1>> ELSE <<Head(s)>>) \o ZeroEncode(Tail(s))

\* A 32-bit signed integer, sign bit flipped, big-endian.
EncodeInt32(v) ==
  << ((v \div 16777216) + 128) % 256, (v \div 65536) % 256,
     (v \div 256) % 256, v % 256 >>

\* PrimitiveValue::AppendToKey
AppendToKey(p) ==
  IF p.type = kInt32 THEN <<kInt32>> \o EncodeInt32(p.val)
  ELSE IF p.type = kString THEN <<kString>> \o ZeroEncode(p.val)
  ELSE <<p.type>>

RECURSIVE ZeroDecode(_, _)
ZeroDecode(s, acc) ==
  IF s = <<>> THEN [ok |-> FALSE, val |-> acc, rest |-> s]
  ELSE IF Head(s) # 0 THEN ZeroDecode(Tail(s), Append(acc, Head(s)))
  ELSE IF Len(s) < 2 THEN [ok |-> FALSE, val |-> acc, rest |-> s]
  ELSE IF s[2] = 0 THEN [ok |-> TRUE, val |-> acc, rest |-> DropFirst(s, 2)]
  ELSE IF s[2] = 1 THEN ZeroDecode(DropFirst(s, 2), Append(acc, 0))
  ELSE [ok |-> FALSE, val |-> acc, rest |-> s]

\* PrimitiveValue::DecodeKey / DecodeFromKey: one component off the front.
\* The caller has seen a non-empty slice.  On failure the value is the
\* default-constructed one.
DecodedString(d) ==
  [ok |-> d.ok, val |-> IF d.ok THEN String(d.val) ELSE NullPrimitive, rest |-> d.rest]

DecodeInt32(r) ==
  IF Len(r) < 4 THEN [ok |-> FALSE, val |-> NullPrimitive, rest |-> r]
  ELSE [ok |-> TRUE,
        val |-> Int32((r[1] - 128) * 16777216 + r[2] * 65536 + r[3] * 256 + r[4]),
        rest |-> DropFirst(r, 4)]

DecodeKey(s) ==
  IF Head(s) = kInt32 THEN DecodeInt32(Tail(s))
  ELSE IF Head(s) = kString THEN DecodedString(ZeroDecode(Tail(s), <<>>))
  ELSE [ok |-> FALSE, val |-> NullPrimitive, rest |-> Tail(s)]

\* PrimitiveValue::CompareTo: by type, then by value.
PrimitiveCompareTo(a, b) ==
  IF a.type # b.type THEN Sign(a.type - b.type)
  ELSE IF a.type = kInt32 THEN Sign(a.val - b.val)
  ELSE IF a.type = kString THEN ByteCompare(a.val, b.val)
  ELSE 0

\* yb::util::CompareVectors
RECURSIVE CompareVectors(_, _)
CompareVectors(a, b) ==
  IF a = <<>> THEN (IF b = <<>> THEN 0 ELSE -1)
  ELSE IF b = <<>> THEN 1
  ELSE IF PrimitiveCompareTo(Head(a), Head(b)) # 0
    THEN PrimitiveCompareTo(Head(a), Head(b))
    ELSE CompareVectors(Tail(a), Tail(b))

\* yb::util::CompareUsingLessThan
CompareUsingLessThan(a, b) == IF a < b THEN -1 ELSE IF b < a THEN 1 ELSE 0

(***************************************************************************)
(* Hybrid time codec: the tag and a payload that sorts in reverse.         *)
(***************************************************************************)
AppendDocHybridTime(ht) == <<kHybridTime, 254 - ht>>

\* ConsumeHybridTimeFromKey
ConsumeHybridTimeFromKey(s) ==
  IF s = <<>> \/ Head(s) > 254 THEN [ok |-> FALSE, ht |-> kInvalidHt, rest |-> s]
  ELSE [ok |-> TRUE, ht |-> 254 - Head(s), rest |-> Tail(s)]

\* DocHybridTime::CompareTo
HtCompareTo(a, b) == CompareUsingLessThan(a, b)

(***************************************************************************)
(* DocKey                                                                  *)
(***************************************************************************)
\* DocKey::DocKey(): no hash; hash_ is left unset, uninit is what it holds.
DocKeyEmpty(uninit) ==
  [hash_present |-> FALSE, hash |-> uninit,
   hashed_group |-> <<>>, range_group |-> <<>>]

\* DocKey::DocKey(range_components)
DocKeyRange(uninit, range_components) ==
  [hash_present |-> FALSE, hash |-> uninit,
   hashed_group |-> <<>>, range_group |-> range_components]

\* DocKey::DocKey(hash, hashed_components, range_components)
DocKeyHashed(hash, hashed_components, range_components) ==
  [hash_present |-> TRUE, hash |-> hash,
   hashed_group |-> hashed_components, range_group |-> range_components]

\* AppendDocKeyItems: every item, then GroupEnd.
RECURSIVE AppendDocKeyItems(_)
AppendDocKeyItems(doc_key_items) ==
  IF doc_key_items = <<>> THEN <<kGroupEnd>>
  ELSE AppendToKey(Head(doc_key_items)) \o AppendDocKeyItems(Tail(doc_key_items))

\* KeyBytes::AppendUInt16: big-endian.
AppendUInt16(h) == <<h \div 256, h % 256>>

\* AppendTo that writes the hash low byte first.
DocKeyAppendTo_LittleEndian(k) ==
  (IF k.hash_present
     THEN <<kUInt16Hash, k.hash % 256, k.hash \div 256>>
          \o AppendDocKeyItems(k.hashed_group)
     ELSE <<>>)
  \o AppendDocKeyItems(k.range_group)

\* DocKey::AppendTo
DocKeyAppendTo(k) ==
  (IF k.hash_present
     THEN <<kUInt16Hash>> \o AppendUInt16(k.hash) \o AppendDocKeyItems(k.hashed_group)
     ELSE <<>>)
  \o AppendDocKeyItems(k.range_group)

\* DocKey::Encode
DocKeyEncode(k) == DocKeyAppendTo(k)

\* DocKey::Clear
DocKeyClear(k) ==
  [hash_present |-> FALSE, hash |-> kClearedHash,
   hashed_group |-> <<>>, range_group |-> <<>>]

\* DocKey::ClearRangeComponents
ClearRangeComponents(k) == [k EXCEPT !.range_group = <<>>]

\* AddRangeComponent that puts the value in front of the range group.
AddRangeComponent_InFront(k, val) == [k EXCEPT !.range_group = <<val>> \o @]

\* DocKey::AddRangeComponent
AddRangeComponent(k, val) == [k EXCEPT !.range_group = Append(@, val)]

\* ConsumePrimitiveValuesFromKey: components up to and including GroupEnd.
\* values is what the vector callback collects (a failed DecodeFromKey
\* leaves the element emplace_back created), spans what the span callback
\* collects.
RECURSIVE ConsumePrimitiveValuesFromKey(_, _, _)
RECURSIVE ConsumeCallback(_, _, _, _)
ConsumePrimitiveValuesFromKey(slice, values, spans) ==
  IF slice = <<>> THEN
    [status |-> "Corruption", values |-> values, spans |-> spans, rest |-> slice]
  ELSE IF Head(slice) = kGroupEnd THEN
    [status |-> "OK", values |-> values, spans |-> spans, rest |-> Tail(slice)]
  ELSE IF ~IsPrimitiveValueType(Head(slice)) THEN
    [status |-> "Corruption", values |-> values, spans |-> spans, rest |-> slice]
  ELSE ConsumeCallback(slice, DecodeKey(slice), values, spans)

\* The callback of ConsumePrimitiveValuesFromKey, d what DecodeKey returned
\* for the front of slice, and the next turn of the loop.
ConsumeCallback(slice, d, values, spans) ==
  IF ~d.ok THEN
    [status |-> "Corruption", values |-> Append(values, d.val),
     spans |-> spans, rest |-> d.rest]
  ELSE ConsumePrimitiveValuesFromKey(
         d.rest, Append(values, d.val),
         Append(spans, SubSeq(slice, 1, Len(slice) - Len(d.rest))))

WHOLE_DOC_KEY == "WHOLE_DOC_KEY"

HASHED_PART_ONLY == "HASHED_PART_ONLY"

\* What DoDecode has handed its callback before anything is decoded.
NothingDecoded(slice) ==
  [status |-> "Corruption", hash_set |-> FALSE, hash_present |-> FALSE,
   hash |-> 0, hashed_group |-> <<>>, range_group |-> <<>>,
   hashed_spans |-> <<>>, range_spans |-> <<>>, rest |-> slice]

\* DocKey::DoDecode, the switch on part_to_decode: d is the result so far,
\* r what ConsumePrimitiveValuesFromKey returns for the range group.
DoDecodeRange(d, r) ==
  [d EXCEPT !.status = r.status, !.range_group = r.values,
            !.range_spans = r.spans, !.rest = r.rest]

\* The switch that decodes the range group whatever the part asked for.
DoDecodePart_WholeKey(d, part_to_decode) ==
  DoDecodeRange(d, ConsumePrimitiveValuesFromKey(d.rest, <<>>, <<>>))

DoDecodePart(d, part_to_decode) ==
  IF part_to_decode = HASHED_PART_ONLY THEN [d EXCEPT !.status = "OK"]
  ELSE DoDecodeRange(d, ConsumePrimitiveValuesFromKey(d.rest, <<>>, <<>>))

\* DocKey::DoDecode, the hash and the hashed group: s1 starts with the
\* UInt16Hash tag and holds the two hash bytes, h is what
\* ConsumePrimitiveValuesFromKey returns for the hashed group.
DoDecodeHashed(s1, h, part_to_decode) ==
  IF h.status # "OK" THEN
    [NothingDecoded(h.rest) EXCEPT !.hash_set = TRUE, !.hash_present = TRUE,
                                   !.hash = s1[2] * 256 + s1[3],
                                   !.hashed_group = h.values,
                                   !.hashed_spans = h.spans]
  ELSE DoDecodePart(
         [NothingDecoded(h.rest) EXCEPT !.hash_set = TRUE, !.hash_present = TRUE,
                                        !.hash = s1[2] * 256 + s1[3],
                                        !.hashed_group = h.values,
                                        !.hashed_spans = h.spans],
         part_to_decode)

\* DocKey::DoDecode past the intent prefix: s1 is the slice, first_value_type
\* the byte read at its front.
DoDecodeFirst(s1, first_value_type, part_to_decode) ==
  IF ~IsPrimitiveValueType(first_value_type) /\ first_value_type # kGroupEnd THEN
    NothingDecoded(s1)
  ELSE IF first_value_type = kUInt16Hash THEN
    IF Len(s1) >= 3
      THEN DoDecodeHashed(s1, ConsumePrimitiveValuesFromKey(DropFirst(s1, 3), <<>>, <<>>),
                          part_to_decode)
      ELSE NothingDecoded(s1)
  ELSE DoDecodePart([NothingDecoded(s1) EXCEPT !.hash_set = TRUE], part_to_decode)

DoDecodeSkipIntent(s1, part_to_decode, oob) ==
  DoDecodeFirst(s1, IF s1 = <<>> THEN oob ELSE Head(s1), part_to_decode)

\* DocKey::DoDecode, the read of *slice->data() that follows the intent
\* prefix: TRUE when the slice is empty there and the read is past its end.
DoDecodeReadsPastEnd(slice) ==
  slice # <<>> /\ slice[1] = kIntentPrefix /\ Tail(slice) = <<>>

\* DoDecode that lets an empty slice through.
DocKeyDoDecode_EmptyAllowed(slice, part_to_decode, oob) ==
  IF slice = <<>> THEN [NothingDecoded(slice) EXCEPT !.status = "OK"]
  ELSE DoDecodeSkipIntent(IF slice[1] = kIntentPrefix THEN Tail(slice) ELSE slice,
                          part_to_decode, oob)

\* DoDecode that skips a second intent prefix byte as well.
DocKeyDoDecode_SkipsTwo(slice, part_to_decode, oob) ==
  IF slice = <<>> THEN NothingDecoded(slice)
  ELSE DoDecodeSkipIntent(
         IF slice[1] # kIntentPrefix THEN slice
         ELSE IF Len(slice) >= 2 /\ slice[2] = kIntentPrefix THEN DropFirst(slice, 2)
         ELSE Tail(slice),
         part_to_decode, oob)

\* DocKey::DoDecode.  The result says what the callback was handed:
\* hash_set (SetHash was called), hash_present, hash, the two groups as
\* values and as spans, and what is left of the slice.  oob is the byte the
\* read of *slice->data() yields when the slice is empty after the intent
\* prefix was consumed.
DocKeyDoDecode(slice, part_to_decode, oob) ==
  IF slice = <<>> THEN NothingDecoded(slice)
  ELSE DoDecodeSkipIntent(IF slice[1] = kIntentPrefix THEN Tail(slice) ELSE slice,
                          part_to_decode, oob)

\* DecodeFromCallback whose SetHash records the presence but not the hash.
DecodeFromCallback_DropsHash(c, d) ==
  [status |-> d.status,
   rest |-> d.rest,
   key |-> [hash_present |-> IF d.hash_set THEN d.hash_present ELSE c.hash_present,
            hash |-> c.hash,
            hashed_group |-> c.hashed_group \o d.hashed_group,
            range_group |-> c.range_group \o d.range_group]]

\* DocKey::DecodeFromCallback on the key c, which DecodeFrom has cleared: the
\* key DoDecode's result d leaves behind.  SetHash writes hash_present_ and,
\* when present, hash_; the groups are appended to the key's vectors.
DecodeFromCallback(c, d) ==
  [status |-> d.status,
   rest |-> d.rest,
   key |-> [hash_present |-> IF d.hash_set THEN d.hash_present ELSE c.hash_present,
            hash |-> IF d.hash_set /\ d.hash_present THEN d.hash ELSE c.hash,
            hashed_group |-> c.hashed_group \o d.hashed_group,
            range_group |-> c.range_group \o d.range_group]]

\* DocKey::DecodeFrom: Clear(), then DoDecode with DecodeFromCallback.
DocKeyDecodeFrom(k, slice, part_to_decode, oob) ==
  DecodeFromCallback(DocKeyClear(k), DocKeyDoDecode(slice, part_to_decode, oob))

\* FullyDecodeFrom that does not look at what is left of the slice.
ExpectAllBytesDecoded_NotChecked(d) == d

\* The check both FullyDecodeFrom make after DecodeFrom returned d.
ExpectAllBytesDecoded(d) ==
  IF d.rest # <<>> THEN [d EXCEPT !.status = "InvalidArgument"] ELSE d

\* DocKey::FullyDecodeFrom
DocKeyFullyDecodeFrom(k, slice, oob) ==
  ExpectAllBytesDecoded(DocKeyDecodeFrom(k, slice, WHOLE_DOC_KEY, oob))

\* DecodeDocKeyCallback whose hashed_group() hands out the output as well.
DecodeDocKeyCallback_HashedSpans(spansOut, d) ==
  [status |-> d.status, rest |-> d.rest,
   spans |-> spansOut \o d.hashed_spans \o d.range_spans]

\* DecodeDocKeyCallback: keeps the range spans only, after those in spansOut.
DecodeDocKeyCallback(spansOut, d) ==
  [status |-> d.status, rest |-> d.rest, spans |-> spansOut \o d.range_spans]

\* DocKey::PartiallyDecode
DocKeyPartiallyDecode(slice, spansOut, oob) ==
  DecodeDocKeyCallback(spansOut, DocKeyDoDecode(slice, WHOLE_DOC_KEY, oob))

\* DummyCallback: nothing is kept, only the bytes consumed count.
DummyCallback(slice, d) == [status |-> d.status, size |-> Len(slice) - Len(d.rest)]

\* DocKey::EncodedSize
EncodedSize(slice, part, oob) == DummyCallback(slice, DocKeyDoDecode(slice, part, oob))

\* DocKey::HashedComponentsEqual
HashedComponentsEqual(a, b) ==
  /\ a.hash_present = b.hash_present
  /\ (~a.hash_present \/ (a.hash = b.hash /\ a.hashed_group = b.hashed_group))

\* DocKey::operator==
DocKeyEquals(a, b) == HashedComponentsEqual(a, b) /\ a.range_group = b.range_group

\* CompareTo that looks at the range group before the hashed group.
DocKeyCompareTo_RangeFirst(a, b) ==
  IF a.hash_present /\ CompareUsingLessThan(a.hash, b.hash) # 0
    THEN CompareUsingLessThan(a.hash, b.hash)
  ELSE IF CompareVectors(a.range_group, b.range_group) # 0
    THEN CompareVectors(a.range_group, b.range_group)
  ELSE CompareVectors(a.hashed_group, b.hashed_group)

\* DocKey::CompareTo (the operands have equal hash_present)
DocKeyCompareTo(a, b) ==
  IF a.hash_present /\ CompareUsingLessThan(a.hash, b.hash) # 0
    THEN CompareUsingLessThan(a.hash, b.hash)
  ELSE IF CompareVectors(a.hashed_group, b.hashed_group) # 0
    THEN CompareVectors(a.hashed_group, b.hashed_group)
  ELSE CompareVectors(a.range_group, b.range_group)

\* YBPartition::AppendIntToKey<int32_t, uint32_t>: the value's four bytes.
AppendIntToKey(value, hash_key) == hash_key \o EncodeInt32(value)

\* YBPartition::HashColumnCompoundValue: a deterministic 16-bit hash of the
\* serialized hash columns.
RECURSIVE HashColumnCompoundValue(_)
HashColumnCompoundValue(hash_key) ==
  IF hash_key = <<>> THEN 0
  ELSE (HashColumnCompoundValue(SubSeq(hash_key, 1, Len(hash_key) - 1)) * 31
        + hash_key[Len(hash_key)]) % 65536

\* DocKey::FromKuduEncodedKey, after the loop over the key columns: k is the
\* key so far, hash_key the bytes the hash columns have contributed.
FromKuduHash(k, hash_key) ==
  IF hash_key # <<>>
    THEN [k EXCEPT !.hash_present = TRUE, !.hash = HashColumnCompoundValue(hash_key)]
    ELSE k

\* DocKey::FromKuduEncodedKey, the loop from column i on.  A column is its
\* DataType and its raw value; the first num_hash_key_columns columns go to
\* hashed_group, and only an INT32 hash column adds to hash_key.
RECURSIVE FromKuduColumns(_, _, _, _, _)
FromKuduColumns(columns, num_hash_key_columns, i, k, hash_key) ==
  IF i > Len(columns) THEN FromKuduHash(k, hash_key)
  ELSE FromKuduColumns(
         columns, num_hash_key_columns, i + 1,
         IF i <= num_hash_key_columns
           THEN [k EXCEPT !.hashed_group =
                   Append(@, IF columns[i].type \in {"STRING", "BINARY"}
                               THEN String(columns[i].value)
                             ELSE Int32(columns[i].value))]
           ELSE [k EXCEPT !.range_group =
                   Append(@, IF columns[i].type \in {"STRING", "BINARY"}
                               THEN String(columns[i].value)
                             ELSE Int32(columns[i].value))],
         IF i <= num_hash_key_columns /\ columns[i].type = "INT32"
           THEN AppendIntToKey(columns[i].value, hash_key)
           ELSE hash_key)

\* DocKey::FromKuduEncodedKey; uninit is what hash_ of the new DocKey holds.
FromKuduEncodedKey(columns, num_hash_key_columns, uninit) ==
  FromKuduColumns(columns, num_hash_key_columns, 1, DocKeyEmpty(uninit), <<>>)

\* DocKey::FromRedisKey
FromRedisKey(hash, redis_key) ==
  [hash_present |-> TRUE, hash |-> hash,
   hashed_group |-> <<String(redis_key)>>, range_group |-> <<>>]

(***************************************************************************)
(* SubDocKey                                                               *)
(***************************************************************************)
\* SubDocKey::SubDocKey(doc_key, subkeys..., hybrid_time)
SubDocKey(doc_key, subkeys, doc_ht) ==
  [doc_key |-> doc_key, subkeys |-> subkeys, doc_ht |-> doc_ht]

\* SubDocKey::has_hybrid_time
has_hybrid_time(k) == k.doc_ht # kInvalidHt

\* SubDocKey::num_subkeys
num_subkeys(k) == Len(k.subkeys)

\* The key with its hybrid time removed.
WithoutHt(k) == [k EXCEPT !.doc_ht = kInvalidHt]

RECURSIVE AppendSubkeys(_)
AppendSubkeys(subkeys) ==
  IF subkeys = <<>> THEN <<>>
  ELSE AppendToKey(Head(subkeys)) \o AppendSubkeys(Tail(subkeys))

\* SubDocKey::Encode
Encode(k, include_hybrid_time) ==
  DocKeyEncode(k.doc_key)
  \o AppendSubkeys(k.subkeys)
  \o (IF has_hybrid_time(k) /\ include_hybrid_time
        THEN AppendDocHybridTime(k.doc_ht) ELSE <<>>)

\* SubDocKey::Clear
SubDocKeyClear(k) ==
  [doc_key |-> DocKeyClear(k.doc_key), subkeys |-> <<>>, doc_ht |-> kInvalidHt]

\* The loop of SubDocKey::DoDecode over SubDocKey::DecodeSubkey: one
\* primitive per turn while a byte is left that is not the HybridTime tag.
RECURSIVE DecodeSubkeys(_, _)
RECURSIVE DecodeSubkey(_, _)
\* The loop that also stops in front of a MaxByte.
DecodeSubkeys_StopsAtMaxByte(slice, subkeys) ==
  IF slice # <<>> /\ Head(slice) # kHybridTime /\ Head(slice) # kMaxByte
    THEN DecodeSubkey(DecodeKey(slice), subkeys)
    ELSE [status |-> "OK", subkeys |-> subkeys, rest |-> slice]

DecodeSubkeys(slice, subkeys) ==
  IF slice # <<>> /\ Head(slice) # kHybridTime
    THEN DecodeSubkey(DecodeKey(slice), subkeys)
    ELSE [status |-> "OK", subkeys |-> subkeys, rest |-> slice]

\* d is what PrimitiveValue::DecodeKey returned into callback.AddSubkey().
DecodeSubkey(d, subkeys) ==
  IF ~d.ok
    THEN [status |-> "Corruption", subkeys |-> Append(subkeys, d.val), rest |-> d.rest]
    ELSE DecodeSubkeys(d.rest, Append(subkeys, d.val))

\* SubDocKey::DoDecode where the subkey loop has returned sk for the slice
\* before: what is left, and whether DCHECK_EQ(kHybridTime, ...) holds
\* where it is evaluated (the loop succeeded and left bytes).
LoopExit(before, sk) ==
  [before |-> before, status |-> sk.status, subkeys |-> sk.subkeys, after |-> sk.rest,
   dcheck |-> (sk.status = "OK" /\ sk.rest # <<>>) => Head(sk.rest) = kHybridTime]

\* The subkey loop of SubDocKey::DoDecode after callback.DecodeDocKey
\* returned dk.
SubkeyLoop(dk) ==
  IF dk.status # "OK"
    THEN [before |-> dk.rest, status |-> "not reached", subkeys |-> <<>>,
          after |-> dk.rest, dcheck |-> TRUE]
    ELSE LoopExit(dk.rest, DecodeSubkeys(dk.rest, <<>>))

\* SubDocKey::DoDecode at the hybrid time: sk is the result of the subkey
\* loop, whose rest starts with the HybridTime tag, h what
\* ConsumeHybridTimeFromKey returned for the bytes after the tag.
DoDecodeHybridTime(sk, h) ==
  [status |-> IF h.ok THEN "OK" ELSE "Corruption",
   subkeys |-> sk.subkeys,
   doc_ht |-> h.ht,
   ht_span |-> IF h.ok THEN SubSeq(sk.rest, 2, Len(sk.rest) - Len(h.rest)) ELSE <<>>,
   rest |-> h.rest]

\* DoDecode that accepts a missing hybrid time whatever the flag.
DoDecodeAfterSubkeys_NeverRequired(sk, require_hybrid_time, ht0) ==
  IF sk.status # "OK" THEN
    [status |-> sk.status, subkeys |-> sk.subkeys, doc_ht |-> ht0,
     ht_span |-> <<>>, rest |-> sk.rest]
  ELSE IF sk.rest = <<>> THEN
    [status |-> "OK", subkeys |-> sk.subkeys, doc_ht |-> kInvalidHt,
     ht_span |-> <<>>, rest |-> sk.rest]
  ELSE DoDecodeHybridTime(sk, ConsumeHybridTimeFromKey(Tail(sk.rest)))

\* SubDocKey::DoDecode after the subkey loop returned sk.  ht0 is what the
\* callback's doc_hybrid_time() held before.
DoDecodeAfterSubkeys(sk, require_hybrid_time, ht0) ==
  IF sk.status # "OK" THEN
    [status |-> sk.status, subkeys |-> sk.subkeys, doc_ht |-> ht0,
     ht_span |-> <<>>, rest |-> sk.rest]
  ELSE IF sk.rest = <<>> THEN
    IF ~require_hybrid_time
      THEN [status |-> "OK", subkeys |-> sk.subkeys, doc_ht |-> kInvalidHt,
            ht_span |-> <<>>, rest |-> sk.rest]
      ELSE [status |-> "Corruption", subkeys |-> sk.subkeys, doc_ht |-> ht0,
            ht_span |-> <<>>, rest |-> sk.rest]
  ELSE DoDecodeHybridTime(sk, ConsumeHybridTimeFromKey(Tail(sk.rest)))

\* SubDocKey::DoDecode after callback.DecodeDocKey returned dk (a status, the
\* rest of the slice): the subkeys, then the hybrid time.  ht_span is what
\* DocHybridTimeSlice is handed (<<>> when it is not called).
SubDocKeyDoDecode(dk, require_hybrid_time, ht0) ==
  IF dk.status # "OK" THEN
    [status |-> dk.status, subkeys |-> <<>>, doc_ht |-> ht0,
     ht_span |-> <<>>, rest |-> dk.rest]
  ELSE DoDecodeAfterSubkeys(DecodeSubkeys(dk.rest, <<>>), require_hybrid_time, ht0)

\* DecodeCallback whose AddSubkey puts each subkey in front of the others.
DecodeCallback_SubkeysReversed(c, dk, d) ==
  [status |-> d.status,
   rest |-> d.rest,
   key |-> [doc_key |-> dk.key,
            subkeys |-> [i \in 1..Len(d.subkeys) |-> d.subkeys[Len(d.subkeys) + 1 - i]]
                        \o c.subkeys,
            doc_ht |-> d.doc_ht]]

\* SubDocKey::DecodeCallback on the key c, which DecodeFrom has cleared: the
\* key left behind when DocKey::DecodeFrom on c's doc_key_ returned dk and
\* DoDecode returned d.  AddSubkey appends to the key's subkeys.
DecodeCallback(c, dk, d) ==
  [status |-> d.status,
   rest |-> d.rest,
   key |-> [doc_key |-> dk.key, subkeys |-> c.subkeys \o d.subkeys, doc_ht |-> d.doc_ht]]

\* DoDecode on the key c: doc_hybrid_time() is c's doc_ht_.
DecodeFromDocKey(c, dk, require_hybrid_time) ==
  DecodeCallback(c, dk, SubDocKeyDoDecode(dk, require_hybrid_time, c.doc_ht))

\* DecodeFrom past its call of Clear(): DoDecode with DecodeCallback on c.
DecodeFromCleared(c, slice, require_hybrid_time, oob) ==
  DecodeFromDocKey(c, DocKeyDecodeFrom(c.doc_key, slice, WHOLE_DOC_KEY, oob),
                   require_hybrid_time)

\* SubDocKey::DecodeFrom: Clear(), then DoDecode with DecodeCallback.
DecodeFrom(k, slice, require_hybrid_time, oob) ==
  DecodeFromCleared(SubDocKeyClear(k), slice, require_hybrid_time, oob)

\* SubDocKey::FullyDecodeFrom
FullyDecodeFrom(k, slice, require_hybrid_time, oob) ==
  ExpectAllBytesDecoded(DecodeFrom(k, slice, require_hybrid_time, oob))

\* DocKey::ToString: the hash is printed where it is present.
DocKeyToString(k) ==
  [text |-> "DocKey",
   hash |-> IF k.hash_present THEN <<k.hash>> ELSE <<>>,
   hashed_group |-> k.hashed_group,
   range_group |-> k.range_group]

\* SubDocKey::ToString: the hybrid time is printed where the key has one.
SubDocKeyToString(k) ==
  [text |-> "SubDocKey",
   doc_key |-> DocKeyToString(k.doc_key),
   subkeys |-> k.subkeys,
   doc_ht |-> IF has_hybrid_time(k) THEN <<k.doc_ht>> ELSE <<>>]

\* Status::ToString: the description of an error.
StatusToString(status) == [text |-> "Status", status |-> status]

\* SubDocKey::DebugSliceToString after FullyDecodeFrom returned d.
DebugSliceRendering(d) ==
  IF d.status # "OK" THEN StatusToString(d.status) ELSE SubDocKeyToString(d.key)

\* SubDocKey::DebugSliceToString; uninit is what hash_ of the local key holds.
DebugSliceToString(slice, uninit, oob) ==
  DebugSliceRendering(
    FullyDecodeFrom(SubDocKey(DocKeyEmpty(uninit), <<>>, kInvalidHt), slice, FALSE, oob))

\* DecodeSubDocKeyCallback: the range spans, then the hybrid time span.
DecodeSubDocKeyCallback(dk, d) ==
  [status |-> d.status,
   rest |-> d.rest,
   spans |-> IF d.status = "OK" THEN Append(dk.spans, d.ht_span) ELSE dk.spans]

PartiallyDecodeDocKey(dk) ==
  DecodeSubDocKeyCallback(dk, SubDocKeyDoDecode(dk, TRUE, kInvalidHt))

\* SubDocKey::PartiallyDecode: DoDecode with DecodeSubDocKeyCallback and the
\* hybrid time required.
PartiallyDecode(slice, spansOut, oob) ==
  PartiallyDecodeDocKey(DocKeyPartiallyDecode(slice, spansOut, oob))

\* std::mismatch(prefix.begin(), prefix.end(), subkeys.begin()).first ==
\* prefix.end(), for a prefix that is not the longer one.
RECURSIVE NoMismatch(_, _)
NoMismatch(prefix, subkeys) ==
  IF prefix = <<>> THEN TRUE
  ELSE Head(prefix) = Head(subkeys) /\ NoMismatch(Tail(prefix), Tail(subkeys))

\* StartsWith that wants as many subkeys in the prefix as in the key.
StartsWith_SameCount(k, prefix) ==
  /\ DocKeyEquals(k.doc_key, prefix.doc_key)
  /\ (\/ ~has_hybrid_time(prefix)
      \/ (k.doc_ht = prefix.doc_ht /\ num_subkeys(prefix) = num_subkeys(k)))
  /\ num_subkeys(prefix) = num_subkeys(k)
  /\ NoMismatch(prefix.subkeys, k.subkeys)

\* StartsWith that does not look at the prefix's hybrid time.
StartsWith_IgnoreHt(k, prefix) ==
  /\ DocKeyEquals(k.doc_key, prefix.doc_key)
  /\ num_subkeys(prefix) <= num_subkeys(k)
  /\ NoMismatch(prefix.subkeys, k.subkeys)

\* SubDocKey::StartsWith
StartsWith(k, prefix) ==
  /\ DocKeyEquals(k.doc_key, prefix.doc_key)
  /\ (\/ ~has_hybrid_time(prefix)
      \/ (k.doc_ht = prefix.doc_ht /\ num_subkeys(prefix) = num_subkeys(k)))
  /\ num_subkeys(prefix) <= num_subkeys(k)
  /\ NoMismatch(prefix.subkeys, k.subkeys)

\* SubDocKey::operator==
SubDocKeyEquals(a, b) ==
  /\ DocKeyEquals(a.doc_key, b.doc_key)
  /\ a.doc_ht = b.doc_ht
  /\ a.subkeys = b.subkeys

\* CompareToIgnoreHt that looks at the subkeys before the DocKey.
CompareToIgnoreHt_SubkeysFirst(a, b) ==
  IF CompareVectors(a.subkeys, b.subkeys) # 0
    THEN CompareVectors(a.subkeys, b.subkeys)
    ELSE DocKeyCompareTo(a.doc_key, b.doc_key)

\* SubDocKey::CompareToIgnoreHt
CompareToIgnoreHt(a, b) ==
  IF DocKeyCompareTo(a.doc_key, b.doc_key) # 0
    THEN DocKeyCompareTo(a.doc_key, b.doc_key)
    ELSE CompareVectors(a.subkeys, b.subkeys)

\* CompareTo without the reversal of the hybrid time order.
CompareTo_NotReversed(a, b) ==
  IF CompareToIgnoreHt(a, b) # 0
    THEN CompareToIgnoreHt(a, b)
    ELSE HtCompareTo(a.doc_ht, b.doc_ht)

\* SubDocKey::CompareTo: hybrid times sort in reverse.
CompareTo(a, b) ==
  IF CompareToIgnoreHt(a, b) # 0
    THEN CompareToIgnoreHt(a, b)
    ELSE -HtCompareTo(a.doc_ht, b.doc_ht)

\* The loop of SubDocKey::NumSharedPrefixComponents from index i (1-based).
RECURSIVE SharedScan(_, _, _, _)
SharedScan(a, b, i, min_num_subkeys) ==
  IF i > min_num_subkeys THEN min_num_subkeys + 1
  ELSE IF a.subkeys[i] # b.subkeys[i] THEN i
  ELSE SharedScan(a, b, i + 1, min_num_subkeys)

\* NumSharedPrefixComponents that returns the index instead of index + 1.
NumSharedPrefixComponents_ZeroBased(a, b) ==
  IF ~DocKeyEquals(a.doc_key, b.doc_key) THEN 0
  ELSE SharedScan(a, b, 1, Min(num_subkeys(a), num_subkeys(b))) - 1

\* SubDocKey::NumSharedPrefixComponents
NumSharedPrefixComponents(a, b) ==
  IF ~DocKeyEquals(a.doc_key, b.doc_key) THEN 0
  ELSE SharedScan(a, b, 1, Min(num_subkeys(a), num_subkeys(b)))

\* KeyBytes::RemoveValueTypeSuffix: drops the last byte, which is the tag.
RemoveValueTypeSuffix(bytes, tag) == SubSeq(bytes, 1, Len(bytes) - 1)

\* AdvanceOutOfSubDoc that keeps the hybrid time in the encoding.
AdvanceOutOfSubDoc_WithHt(k) == Append(Encode(k, TRUE), kMaxByte)

\* AdvanceOutOfSubDoc that replaces the last byte by MaxByte, as
\* AdvanceOutOfDocKeyPrefix does.
AdvanceOutOfSubDoc_Strip(k) ==
  Append(RemoveValueTypeSuffix(Encode(k, FALSE), kGroupEnd), kMaxByte)

\* SubDocKey::AdvanceOutOfSubDoc
AdvanceOutOfSubDoc(k) == Append(Encode(k, FALSE), kMaxByte)

\* AdvanceOutOfDocKeyPrefix that leaves the GroupEnd in place.
AdvanceOutOfDocKeyPrefix_KeepGroupEnd(k) == Append(DocKeyEncode(k.doc_key), kMaxByte)

\* SubDocKey::AdvanceOutOfDocKeyPrefix
AdvanceOutOfDocKeyPrefix(k) ==
  Append(RemoveValueTypeSuffix(DocKeyEncode(k.doc_key), kGroupEnd), kMaxByte)

\* Transform that stops after the hash.
TransformSlice_HashOnly(slice, size) ==
  [ok |-> size.status = "OK",
   key |-> IF size.status = "OK"
             THEN SubSeq(slice, 1, IF size.size > 3 THEN 3 ELSE size.size)
             ELSE <<>>]

\* Transform that returns its argument whole.
TransformSlice_WholeKey(slice, size) ==
  [ok |-> size.status = "OK", key |-> IF size.status = "OK" THEN slice ELSE <<>>]

\* HashedComponentsExtractor::GetInstance: the function-local static is
\* constructed by the first call; the class has no data member.
GetInstance(instance) == [constructed |-> TRUE]

\* The slice Transform returns for the size EncodedSize reported: the hashed
\* part of the key.  ok is FALSE where CHECK_OK aborts.
TransformSlice(slice, size) ==
  [ok |-> size.status = "OK",
   key |-> IF size.status = "OK" THEN SubSeq(slice, 1, size.size) ELSE <<>>]

\* Transform that measures the whole DocKey.
Transform_WholeDocKey(slice, oob) ==
  TransformSlice(slice, EncodedSize(slice, WHOLE_DOC_KEY, oob))

\* HashedComponentsExtractor::Transform
Transform(slice, oob) ==
  TransformSlice(slice, EncodedSize(slice, HASHED_PART_ONLY, oob))

(***************************************************************************)
(* The keys of the model: what the constructors build from the model's     *)
(* primitive values, hashes and hybrid times.                              *)
(***************************************************************************)
Hashes == {255, 256}

\* What an unset hash_ field may hold.
UninitHashes == {0, kClearedHash}

HybridTimes == 1..MaxHt

DocHts == HybridTimes \cup {kInvalidHt}

Groups == UNION {[1..n -> PrimitiveValues] : n \in 0..MaxComponents}

DocKeys ==
  {DocKeyRange(u, r) : u \in UninitHashes, r \in Groups}
  \cup {DocKeyHashed(h, hg, r) : h \in Hashes,
          <<hg, r>> \in {g \in Groups \X Groups : Len(g[1]) + Len(g[2]) <= MaxComponents}}

SubDocKeys ==
  {SubDocKey(dk, sk, ht) : ht \in DocHts,
     <<dk, sk>> \in {x \in DocKeys \X Groups :
                       Len(x[1].hashed_group) + Len(x[1].range_group) + Len(x[2])
                         <= MaxComponents}}

NoKey == "none"

\* Bytes a read past the end of a slice may yield.
OutOfBoundsBytes == {kGroupEnd, kUInt16Hash, kMaxByte}

NoOut == [none |-> TRUE]

(***************************************************************************)
(* State: key is the SubDocKey the operations are called on, other the     *)
(* second key of the last operation (its argument, or the object it        *)
(* decoded into), op the last operation and out what it returned.  Every    *)
(* call is made on a key as constructed; only a decode or a projection     *)
(* follows another call, on the bytes that call returned.                  *)
(***************************************************************************)
Init ==
  /\ key \in SubDocKeys
  /\ other = NoKey
  /\ op = "init"
  /\ out = NoOut

\* key.doc_key().Encode()
DoDocKeyEncode ==
  /\ op = "init"
  /\ op' = "DocKey::Encode"
  /\ out' = [bytes |-> DocKeyEncode(key.doc_key)]
  /\ other' = NoKey
  /\ UNCHANGED key

\* DocKey::FullyDecodeFrom on a new DocKey, of the bytes Encode returned.
DoDocKeyFullyDecodeFrom ==
  /\ op = "DocKey::Encode"
  /\ \E u \in UninitHashes, oob \in OutOfBoundsBytes :
       \E d \in {DocKeyFullyDecodeFrom(DocKeyEmpty(u), out.bytes, oob)} :
         /\ other' = d.key
         /\ out' = [status |-> d.status, rest |-> d.rest, bytes |-> out.bytes]
  /\ op' = "DocKey::FullyDecodeFrom"
  /\ UNCHANGED key

\* key.doc_key().CompareTo(o)
DoDocKeyCompareTo ==
  /\ op = "init"
  /\ \E o \in DocKeys :
       /\ o.hash_present = key.doc_key.hash_present
       /\ other' = o
       /\ out' = [result |-> DocKeyCompareTo(key.doc_key, o)]
  /\ op' = "DocKey::CompareTo"
  /\ UNCHANGED key

\* key.Encode(include_hybrid_time)
DoEncode ==
  /\ op = "init"
  /\ \E include_hybrid_time \in BOOLEAN :
       out' = [bytes |-> Encode(key, include_hybrid_time),
               include_hybrid_time |-> include_hybrid_time]
  /\ op' = "SubDocKey::Encode"
  /\ other' = NoKey
  /\ UNCHANGED key

\* SubDocKey::FullyDecodeFrom on a new SubDocKey, of the bytes Encode
\* returned.
DoFullyDecodeFrom ==
  /\ op = "SubDocKey::Encode"
  /\ \E u \in UninitHashes, oob \in OutOfBoundsBytes, require_hybrid_time \in BOOLEAN :
       \E d \in {FullyDecodeFrom(SubDocKey(DocKeyEmpty(u), <<>>, kInvalidHt),
                                 out.bytes, require_hybrid_time, oob)} :
         /\ other' = d.key
         /\ out' = [status |-> d.status, rest |-> d.rest, bytes |-> out.bytes,
                    include_hybrid_time |-> out.include_hybrid_time,
                    require_hybrid_time |-> require_hybrid_time]
  /\ op' = "SubDocKey::FullyDecodeFrom"
  /\ UNCHANGED key

\* key.CompareTo(o)
DoCompareTo ==
  /\ op = "init"
  /\ \E o \in SubDocKeys :
       /\ o.doc_key.hash_present = key.doc_key.hash_present
       /\ other' = o
       /\ out' = [result |-> CompareTo(key, o)]
  /\ op' = "SubDocKey::CompareTo"
  /\ UNCHANGED key

\* key.CompareToIgnoreHt(o)
DoCompareToIgnoreHt ==
  /\ op = "init"
  /\ \E o \in SubDocKeys :
       /\ o.doc_key.hash_present = key.doc_key.hash_present
       /\ other' = o
       /\ out' = [result |-> CompareToIgnoreHt(key, o)]
  /\ op' = "SubDocKey::CompareToIgnoreHt"
  /\ UNCHANGED key

\* key.StartsWith(prefix)
DoStartsWith ==
  /\ op = "init"
  /\ \E prefix \in SubDocKeys :
       /\ other' = prefix
       /\ out' = [result |-> StartsWith(key, prefix)]
  /\ op' = "SubDocKey::StartsWith"
  /\ UNCHANGED key

\* key.NumSharedPrefixComponents(o)
DoNumSharedPrefixComponents ==
  /\ op = "init"
  /\ \E o \in SubDocKeys :
       /\ other' = o
       /\ out' = [result |-> NumSharedPrefixComponents(key, o)]
  /\ op' = "SubDocKey::NumSharedPrefixComponents"
  /\ UNCHANGED key

\* key.AdvanceOutOfSubDoc()
DoAdvanceOutOfSubDoc ==
  /\ op = "init"
  /\ op' = "SubDocKey::AdvanceOutOfSubDoc"
  /\ out' = [bytes |-> AdvanceOutOfSubDoc(key)]
  /\ other' = NoKey
  /\ UNCHANGED key

\* key.AdvanceOutOfDocKeyPrefix()
DoAdvanceOutOfDocKeyPrefix ==
  /\ op = "init"
  /\ op' = "SubDocKey::AdvanceOutOfDocKeyPrefix"
  /\ out' = [bytes |-> AdvanceOutOfDocKeyPrefix(key)]
  /\ other' = NoKey
  /\ UNCHANGED key

\* HashedComponentsExtractor::Transform of the bytes key.Encode returned.
DoTransform ==
  /\ op = "SubDocKey::Encode"
  /\ \E oob \in OutOfBoundsBytes :
       \E t \in {Transform(out.bytes, oob)} :
         out' = [ok |-> t.ok, key |-> t.key, bytes |-> out.bytes]
  /\ op' = "HashedComponentsExtractor::Transform"
  /\ other' = NoKey
  /\ UNCHANGED key

Next ==
  \/ DoDocKeyEncode
  \/ DoDocKeyFullyDecodeFrom
  \/ DoDocKeyCompareTo
  \/ DoEncode
  \/ DoFullyDecodeFrom
  \/ DoCompareTo
  \/ DoCompareToIgnoreHt
  \/ DoStartsWith
  \/ DoNumSharedPrefixComponents
  \/ DoAdvanceOutOfSubDoc
  \/ DoAdvanceOutOfDocKeyPrefix
  \/ DoTransform

Spec == Init /\ [][Next]_vars

(***************************************************************************)
(* PartiallyDecode of the bytes Encode returned, into an output that may   *)
(* hold a span already.                                                    *)
(***************************************************************************)
SpansBefore == {<<>>, <<<<kMaxByte>>>>}

\* DocKey::PartiallyDecode of the bytes DocKey::Encode returned.
DoDocKeyPartiallyDecode ==
  /\ op = "DocKey::Encode"
  /\ \E before \in SpansBefore, oob \in OutOfBoundsBytes :
       \E d \in {DocKeyPartiallyDecode(out.bytes, before, oob)} :
         out' = [status |-> d.status, rest |-> d.rest, spans |-> d.spans,
                 before |-> before, bytes |-> out.bytes]
  /\ op' = "DocKey::PartiallyDecode"
  /\ UNCHANGED <<key, other>>

\* SubDocKey::PartiallyDecode of the bytes SubDocKey::Encode returned.
DoPartiallyDecode ==
  /\ op = "SubDocKey::Encode"
  /\ \E before \in SpansBefore, oob \in OutOfBoundsBytes :
       \E d \in {PartiallyDecode(out.bytes, before, oob)} :
         out' = [status |-> d.status, rest |-> d.rest, spans |-> d.spans,
                 before |-> before, bytes |-> out.bytes,
                 include_hybrid_time |-> out.include_hybrid_time]
  /\ op' = "SubDocKey::PartiallyDecode"
  /\ UNCHANGED <<key, other>>

NextSpans ==
  \/ DoDocKeyEncode
  \/ DoEncode
  \/ DoDocKeyPartiallyDecode
  \/ DoPartiallyDecode

SpecSpans == Init /\ [][NextSpans]_vars

(***************************************************************************)
(* Sequences of mutator calls on one DocKey.  other is the key as it was   *)
(* at the start of the sequence and out.calls the calls made since.        *)
(***************************************************************************)
MaxCalls == 3

InitMutators ==
  /\ key \in DocKeys
  /\ other = key
  /\ op = "init"
  /\ out = [calls |-> <<>>]

\* key.AddRangeComponent(val)
CallAddRangeComponent ==
  /\ Len(out.calls) < MaxCalls
  /\ Len(key.range_group) < MaxComponents
  /\ \E val \in PrimitiveValues :
       /\ key' = AddRangeComponent(key, val)
       /\ out' = [calls |-> Append(out.calls, [name |-> "AddRangeComponent", val |-> val])]
  /\ op' = "DocKey::AddRangeComponent"
  /\ UNCHANGED other

\* key.ClearRangeComponents()
CallClearRangeComponents ==
  /\ Len(out.calls) < MaxCalls
  /\ key' = ClearRangeComponents(key)
  /\ out' = [calls |-> Append(out.calls, [name |-> "ClearRangeComponents"])]
  /\ op' = "DocKey::ClearRangeComponents"
  /\ UNCHANGED other

\* key.Clear(); a new sequence starts from the cleared key.
CallClear ==
  /\ op # "DocKey::Clear"
  /\ key' = DocKeyClear(key)
  /\ other' = DocKeyClear(key)
  /\ out' = [calls |-> <<>>]
  /\ op' = "DocKey::Clear"

NextMutators ==
  \/ CallAddRangeComponent
  \/ CallClearRangeComponents
  \/ CallClear

SpecMutators == InitMutators /\ [][NextMutators]_vars

(***************************************************************************)
(* The seek sentinels on their own.                                        *)
(***************************************************************************)
NextSentinel ==
  \/ DoAdvanceOutOfSubDoc
  \/ DoAdvanceOutOfDocKeyPrefix

SpecSentinel == Init /\ [][NextSentinel]_vars

(***************************************************************************)
(* The prefix tests on their own, on every pair of keys.                   *)
(***************************************************************************)
NextPrefix ==
  \/ DoStartsWith
  \/ DoNumSharedPrefixComponents

SpecPrefix == Init /\ [][NextPrefix]_vars

(***************************************************************************)
(* Transform on its own, called on the encodings of the keys.              *)
(***************************************************************************)
NextProjection ==
  \/ DoEncode
  \/ DoTransform

SpecProjection == Init /\ [][NextProjection]_vars

(***************************************************************************)
(* CompareTo on its own, called on a key that carries a hybrid time.       *)
(***************************************************************************)
InitOrder == Init /\ has_hybrid_time(key)

NextOrder == DoCompareTo

SpecOrder == InitOrder /\ [][NextOrder]_vars

(***************************************************************************)
(* The decoders on arbitrary bytes: a slice is the encoding of a key cut   *)
(* at any length, behind no, one or two intent prefix bytes, with or       *)
(* without one more byte that is no tag of a component.                    *)
(***************************************************************************)
Encodings == {Encode(k, include_hybrid_time) :
                k \in SubDocKeys, include_hybrid_time \in BOOLEAN}

Truncations == UNION {{SubSeq(e, 1, n) : n \in 0..Len(e)} : e \in Encodings}

IntentPrefixes == {<<>>, <<kIntentPrefix>>, <<kIntentPrefix, kIntentPrefix>>}

TrailingBytes == {<<>>, <<kMaxByte>>}

Slices == {p \o t \o s : p \in IntentPrefixes, t \in Truncations, s \in TrailingBytes}

InitDecode ==
  /\ key = NoKey
  /\ other = NoKey
  /\ op = "slice"
  /\ out \in {[bytes |-> b] : b \in Slices}

\* DocKey::DecodeFrom on a new DocKey.
DoDocKeyDecodeFromSlice ==
  /\ op = "slice"
  /\ \E u \in UninitHashes, oob \in OutOfBoundsBytes,
        part_to_decode \in {WHOLE_DOC_KEY, HASHED_PART_ONLY} :
       \E d \in {DocKeyDecodeFrom(DocKeyEmpty(u), out.bytes, part_to_decode, oob)} :
         /\ other' = d.key
         /\ out' = [status |-> d.status, rest |-> d.rest, bytes |-> out.bytes,
                    part_to_decode |-> part_to_decode,
                    read_past_end |-> DoDecodeReadsPastEnd(out.bytes)]
  /\ op' = "DocKey::DecodeFrom"
  /\ UNCHANGED key

\* DocKey::FullyDecodeFrom on a new DocKey; decoded is what its call of
\* DecodeFrom returned.
DoDocKeyFullyDecodeFromSlice ==
  /\ op = "slice"
  /\ \E u \in UninitHashes, oob \in OutOfBoundsBytes :
       \E d \in {DocKeyFullyDecodeFrom(DocKeyEmpty(u), out.bytes, oob)},
          decoded \in {DocKeyDecodeFrom(DocKeyEmpty(u), out.bytes, WHOLE_DOC_KEY, oob)} :
         /\ other' = d.key
         /\ out' = [status |-> d.status, rest |-> d.rest,
                    bytes |-> out.bytes, decoded |-> decoded.status]
  /\ op' = "DocKey::FullyDecodeFrom"
  /\ UNCHANGED key

\* DocKey::EncodedSize
DoEncodedSize ==
  /\ op = "slice"
  /\ \E oob \in OutOfBoundsBytes, part \in {WHOLE_DOC_KEY, HASHED_PART_ONLY} :
       \E d \in {EncodedSize(out.bytes, part, oob)} :
         out' = [status |-> d.status, size |-> d.size, bytes |-> out.bytes,
                 part |-> part, oob |-> oob]
  /\ op' = "DocKey::EncodedSize"
  /\ UNCHANGED <<key, other>>

\* SubDocKey::DecodeFrom on a new SubDocKey; loop is what the subkey loop
\* of DoDecode started from and left.
DoDecodeFromSlice ==
  /\ op = "slice"
  /\ \E u \in UninitHashes, oob \in OutOfBoundsBytes, require_hybrid_time \in BOOLEAN :
       \E d \in {DecodeFrom(SubDocKey(DocKeyEmpty(u), <<>>, kInvalidHt),
                             out.bytes, require_hybrid_time, oob)},
          dk \in {DocKeyDecodeFrom(DocKeyEmpty(u), out.bytes, WHOLE_DOC_KEY, oob)} :
         /\ other' = d.key
         /\ out' = [status |-> d.status, rest |-> d.rest, bytes |-> out.bytes,
                    require_hybrid_time |-> require_hybrid_time,
                    loop |-> SubkeyLoop(dk)]
  /\ op' = "SubDocKey::DecodeFrom"
  /\ UNCHANGED key

\* SubDocKey::FullyDecodeFrom on a new SubDocKey; decoded is what its call
\* of DecodeFrom returned.
DoFullyDecodeFromSlice ==
  /\ op = "slice"
  /\ \E u \in UninitHashes, oob \in OutOfBoundsBytes, require_hybrid_time \in BOOLEAN :
       \E d \in {FullyDecodeFrom(SubDocKey(DocKeyEmpty(u), <<>>, kInvalidHt),
                                  out.bytes, require_hybrid_time, oob)},
          decoded \in {DecodeFrom(SubDocKey(DocKeyEmpty(u), <<>>, kInvalidHt),
                                   out.bytes, require_hybrid_time, oob)} :
         /\ other' = d.key
         /\ out' = [status |-> d.status, rest |-> d.rest,
                    bytes |-> out.bytes, decoded |-> decoded.status,
                    require_hybrid_time |-> require_hybrid_time]
  /\ op' = "SubDocKey::FullyDecodeFrom"
  /\ UNCHANGED key

\* SubDocKey::DebugSliceToString
DoDebugSliceToString ==
  /\ op = "slice"
  /\ \E u \in UninitHashes, oob \in OutOfBoundsBytes :
       \E d \in {FullyDecodeFrom(SubDocKey(DocKeyEmpty(u), <<>>, kInvalidHt),
                                  out.bytes, FALSE, oob)} :
         /\ other' = d.key
         /\ out' = [text |-> DebugSliceToString(out.bytes, u, oob),
                    decoded |-> d.status, bytes |-> out.bytes]
  /\ op' = "SubDocKey::DebugSliceToString"
  /\ UNCHANGED key

NextDecode ==
  \/ DoDocKeyDecodeFromSlice
  \/ DoDocKeyFullyDecodeFromSlice
  \/ DoEncodedSize
  \/ DoDecodeFromSlice
  \/ DoFullyDecodeFromSlice
  \/ DoDebugSliceToString

SpecDecode == InitDecode /\ [][NextDecode]_vars

(***************************************************************************)
(* DecodeFrom of one slice into two keys that held something before.  key  *)
(* and other are the two keys after the call; a read past the end of the   *)
(* slice yields a byte of its own in each call.                            *)
(***************************************************************************)
PriorKeys ==
  {SubDocKey(DocKeyEmpty(0), <<>>, kInvalidHt),
   SubDocKey(DocKeyHashed(255, <<Int32(-1)>>, <<String(<<97>>)>>), <<Int32(-1)>>, 1)}

\* first.doc_key().DecodeFrom(slice, part) and second.doc_key().DecodeFrom(..)
DoDocKeyDecodeFromOnto ==
  /\ op = "slice"
  /\ \E first \in PriorKeys, second \in PriorKeys,
        part_to_decode \in {WHOLE_DOC_KEY, HASHED_PART_ONLY},
        oob1 \in OutOfBoundsBytes, oob2 \in OutOfBoundsBytes :
       \E d1 \in {DocKeyDecodeFrom(first.doc_key, out.bytes, part_to_decode, oob1)},
          d2 \in {DocKeyDecodeFrom(second.doc_key, out.bytes, part_to_decode, oob2)} :
         /\ key' = d1.key
         /\ other' = d2.key
         /\ out' = [status |-> d1.status, other_status |-> d2.status,
                    rest |-> d1.rest, other_rest |-> d2.rest,
                    first |-> first, second |-> second, bytes |-> out.bytes,
                    read_past_end |-> DoDecodeReadsPastEnd(out.bytes)]
  /\ op' = "DocKey::DecodeFrom"

\* first.DecodeFrom(slice, require_hybrid_time) and second.DecodeFrom(..)
DoDecodeFromOnto ==
  /\ op = "slice"
  /\ \E first \in PriorKeys, second \in PriorKeys,
        require_hybrid_time \in BOOLEAN,
        oob1 \in OutOfBoundsBytes, oob2 \in OutOfBoundsBytes :
       \E d1 \in {DecodeFrom(first, out.bytes, require_hybrid_time, oob1)},
          d2 \in {DecodeFrom(second, out.bytes, require_hybrid_time, oob2)} :
         /\ key' = d1.key
         /\ other' = d2.key
         /\ out' = [status |-> d1.status, other_status |-> d2.status,
                    rest |-> d1.rest, other_rest |-> d2.rest,
                    first |-> first, second |-> second, bytes |-> out.bytes,
                    read_past_end |-> DoDecodeReadsPastEnd(out.bytes)]
  /\ op' = "SubDocKey::DecodeFrom"

NextPrior ==
  \/ DoDocKeyDecodeFromOnto
  \/ DoDecodeFromOnto

SpecPrior == InitDecode /\ [][NextPrior]_vars

(***************************************************************************)
(* Comparing the DocKeys the program can build.  Here key and other are    *)
(* DocKeys: the first and the second one built, by a constructor, a        *)
(* factory or a decoder; the mutators change the first before the second   *)
(* is built, and CompareTo and operator== are then called on the pair.     *)
(***************************************************************************)
\* The columns of a Kudu encoded key: DataType and raw value.
KuduColumns ==
  {[type |-> "INT32", value |-> -1],
   [type |-> "INT16", value |-> -1],
   [type |-> "INT8", value |-> -1],
   [type |-> "STRING", value |-> <<97>>],
   [type |-> "BINARY", value |-> <<97>>]}

KuduEncodedKeys == UNION {[1..n -> KuduColumns] : n \in 0..MaxComponents}

RedisKeys == {<<97>>}

\* The encodings of the DocKeys of the model, cut at any length.
DocKeyTruncations ==
  UNION {{SubSeq(DocKeyEncode(k), 1, n) : n \in 0..Len(DocKeyEncode(k))} : k \in DocKeys}

\* out.built counts the keys built so far.
InitCompare ==
  /\ key = NoKey
  /\ other = NoKey
  /\ op = "init"
  /\ out = [built |-> 0]

\* A new DocKey k, built by operation name, becomes the first key or, when
\* there is one, the second.
Built(k, name) ==
  /\ op # "DocKey::CompareTo"
  /\ out.built < 2
  /\ IF out.built = 0 THEN key' = k /\ other' = other
                      ELSE other' = k /\ key' = key
  /\ op' = name
  /\ out' = [built |-> out.built + 1]

\* DocKey::DocKey(), DocKey(range_components), DocKey(hash, hashed, range)
DoDocKey == \E k \in DocKeys : Built(k, "DocKey::DocKey")

\* DocKey::FromKuduEncodedKey
DoFromKuduEncodedKey ==
  \E columns \in KuduEncodedKeys, num_hash_key_columns \in 0..MaxComponents,
     u \in UninitHashes :
    /\ num_hash_key_columns <= Len(columns)
    /\ Built(FromKuduEncodedKey(columns, num_hash_key_columns, u),
             "DocKey::FromKuduEncodedKey")

\* DocKey::FromRedisKey
DoFromRedisKey ==
  \E hash \in Hashes, redis_key \in RedisKeys :
    Built(FromRedisKey(hash, redis_key), "DocKey::FromRedisKey")

\* DocKey::DecodeFrom on a new DocKey: what it leaves in the key, whether it
\* succeeds or fails.
DoDocKeyDecodeInto ==
  \E slice \in DocKeyTruncations, u \in UninitHashes, oob \in OutOfBoundsBytes :
    \E d \in {DocKeyDecodeFrom(DocKeyEmpty(u), slice, WHOLE_DOC_KEY, oob)} :
      Built(d.key, "DocKey::DecodeFrom")

\* key.AddRangeComponent(val)
DoAddRangeComponent ==
  /\ op # "DocKey::CompareTo"
  /\ out.built = 1
  /\ Len(key.hashed_group) + Len(key.range_group) < MaxComponents
  /\ \E val \in PrimitiveValues : key' = AddRangeComponent(key, val)
  /\ op' = "DocKey::AddRangeComponent"
  /\ UNCHANGED <<other, out>>

\* key.ClearRangeComponents()
DoClearRangeComponents ==
  /\ op # "DocKey::CompareTo"
  /\ out.built = 1
  /\ key' = ClearRangeComponents(key)
  /\ op' = "DocKey::ClearRangeComponents"
  /\ UNCHANGED <<other, out>>

\* key.Clear()
DoClear ==
  /\ op # "DocKey::CompareTo"
  /\ out.built = 1
  /\ key' = DocKeyClear(key)
  /\ op' = "DocKey::Clear"
  /\ UNCHANGED <<other, out>>

\* key.CompareTo(other) and key == other, for keys with equal hash_present.
DoCompareBuilt ==
  /\ op # "DocKey::CompareTo"
  /\ out.built = 2
  /\ key.hash_present = other.hash_present
  /\ out' = [result |-> DocKeyCompareTo(key, other), equal |-> DocKeyEquals(key, other)]
  /\ op' = "DocKey::CompareTo"
  /\ UNCHANGED <<key, other>>

NextCompare ==
  \/ DoDocKey
  \/ DoFromKuduEncodedKey
  \/ DoFromRedisKey
  \/ DoDocKeyDecodeInto
  \/ DoAddRangeComponent
  \/ DoClearRangeComponents
  \/ DoClear
  \/ DoCompareBuilt

SpecCompare == InitCompare /\ [][NextCompare]_vars

(***************************************************************************)
(* Threads that call GetKeyTransformer()->Transform(key) at the same time. *)
(* Here key, op and out are functions of the thread: the DocKey whose      *)
(* encoded SubDocKey the thread passes, the thread's position, and its     *)
(* locals (the transformer it was given, the size EncodedSize returned,    *)
(* the slice returned).  other is the one HashedComponentsExtractor        *)
(* instance of the process.                                                *)
(***************************************************************************)
Threads == {1, 2}

\* The slice thread t passes to Transform.
Argument(t) == Encode(SubDocKey(key[t], <<>>, 1), TRUE)

InitThreads ==
  /\ key \in [Threads -> DocKeys]
  /\ other = [constructed |-> FALSE]
  /\ op = [t \in Threads |-> "idle"]
  /\ out = [t \in Threads |->
             [transformer |-> [constructed |-> FALSE],
              size |-> [status |-> "none", size |-> 0],
              result |-> <<>>]]

\* DocDbAwareFilterPolicy::GetKeyTransformer in thread t
ThreadGetKeyTransformer ==
  \E t \in Threads :
    /\ op[t] = "idle"
    /\ other' = GetInstance(other)
    /\ out' = [out EXCEPT ![t].transformer = GetInstance(other)]
    /\ op' = [op EXCEPT ![t] = "Transform"]
    /\ UNCHANGED key

\* Transform in thread t: the call of DocKey::EncodedSize
ThreadEncodedSize ==
  \E t \in Threads, oob \in OutOfBoundsBytes :
    /\ op[t] = "Transform"
    /\ out' = [out EXCEPT ![t].size = EncodedSize(Argument(t), HASHED_PART_ONLY, oob)]
    /\ op' = [op EXCEPT ![t] = "CHECK_OK"]
    /\ UNCHANGED <<key, other>>

\* Transform in thread t: CHECK_OK(size) and the slice returned
ThreadReturn ==
  \E t \in Threads :
    /\ op[t] = "CHECK_OK"
    /\ \E r \in {TransformSlice(Argument(t), out[t].size)} :
         /\ out' = [out EXCEPT ![t].result = r.key]
         /\ op' = [op EXCEPT ![t] = IF r.ok THEN "returned" ELSE "aborted"]
    /\ UNCHANGED <<key, other>>

NextThreads ==
  \/ ThreadGetKeyTransformer
  \/ ThreadEncodedSize
  \/ ThreadReturn

SpecThreads == InitThreads /\ [][NextThreads]_vars

(***************************************************************************)
(* DocKey::FromKuduEncodedKey on its own: out holds the columns of the     *)
(* encoded key and the schema's number of hash columns, key the DocKey     *)
(* returned.                                                               *)
(***************************************************************************)
InitKudu ==
  /\ key = NoKey
  /\ other = NoKey
  /\ op = "init"
  /\ out \in {[columns |-> x[1], num_hash_key_columns |-> x[2]] :
               x \in {y \in KuduEncodedKeys \X (0..MaxComponents) : y[2] <= Len(y[1])}}

\* DocKey::FromKuduEncodedKey(encoded_key, schema)
DoFromKuduEncodedKeyOf ==
  /\ op = "init"
  /\ \E u \in UninitHashes :
       key' = FromKuduEncodedKey(out.columns, out.num_hash_key_columns, u)
  /\ op' = "DocKey::FromKuduEncodedKey"
  /\ UNCHANGED <<other, out>>

NextKudu == DoFromKuduEncodedKeyOf

SpecKudu == InitKudu /\ [][NextKudu]_vars

(***************************************************************************)
(* Properties.                                                             *)
(***************************************************************************)
\* Two DocKeys agree component by component; the hash counts only where it
\* is present.
SameDocKey(a, b) ==
  /\ a.hash_present = b.hash_present
  /\ (a.hash_present => a.hash = b.hash)
  /\ a.hashed_group = b.hashed_group
  /\ a.range_group = b.range_group

\* p is a leading run of s.
LeadingRun(p, s) == Len(p) <= Len(s) /\ \A i \in 1..Len(p) : p[i] = s[i]

\* C1: decoding the encoding of a DocKey with FullyDecodeFrom returns OK,
\* yields the key component by component and leaves no byte unconsumed.
C1_RoundTrip ==
  op = "DocKey::FullyDecodeFrom" =>
    /\ out.bytes = DocKeyEncode(key.doc_key)
    /\ out.status = "OK"
    /\ out.rest = <<>>
    /\ SameDocKey(other, key.doc_key)

C1_Witness ==
  /\ op = "DocKey::FullyDecodeFrom"
  /\ key.doc_key.hash_present
  /\ Len(key.doc_key.hashed_group) >= 1
  /\ Len(key.doc_key.range_group) >= 1
  /\ out.status = "OK"
  /\ other.hashed_group = key.doc_key.hashed_group

\* C2: for DocKeys with equal hash_present the sign of CompareTo is the sign
\* of the byte comparison of the two encodings, also where one group is a
\* strict leading run of the other's.
C2_OrderPreserved ==
  op = "DocKey::CompareTo" =>
    Sign(out.result) = ByteCompare(DocKeyEncode(key.doc_key), DocKeyEncode(other))

C2_Witness ==
  /\ op = "DocKey::CompareTo"
  /\ key.doc_key.hash_present
  /\ key.doc_key.hash = other.hash
  /\ Len(key.doc_key.hashed_group) < Len(other.hashed_group)
  /\ LeadingRun(key.doc_key.hashed_group, other.hashed_group)
  /\ Len(key.doc_key.range_group) >= 1
  /\ out.result < 0

\* C3: with equal doc_key and subkeys, the key with the greater hybrid time
\* compares less, and CompareToIgnoreHt finds the two equal.
C3_HybridTimeReversed ==
  ( /\ op = "SubDocKey::CompareTo"
    /\ SameDocKey(key.doc_key, other.doc_key)
    /\ key.subkeys = other.subkeys
    /\ has_hybrid_time(key) /\ has_hybrid_time(other)
    /\ key.doc_ht > other.doc_ht ) =>
    /\ out.result < 0
    /\ CompareToIgnoreHt(key, other) = 0

C3_Witness ==
  /\ op = "SubDocKey::CompareTo"
  /\ SameDocKey(key.doc_key, other.doc_key)
  /\ key.subkeys = other.subkeys
  /\ Len(key.subkeys) >= 1
  /\ has_hybrid_time(key) /\ has_hybrid_time(other)
  /\ key.doc_ht > other.doc_ht
  /\ out.result < 0

\* The keys equal to k or nested under it: the same doc_key, subkeys that
\* start with k's, any hybrid time.
NestedUnder(k) ==
  {SubDocKey(k.doc_key, k.subkeys \o ext, ht) : ext \in Groups, ht \in DocHts}

\* C4: the bytes of AdvanceOutOfSubDoc compare greater than the encoding,
\* with or without hybrid time, of the key and of every key nested under it.
C4_SentinelAfterSubDoc ==
  op = "SubDocKey::AdvanceOutOfSubDoc" =>
    \A j \in NestedUnder(key) \cup {key} : \A include_hybrid_time \in BOOLEAN :
      ByteCompare(out.bytes, Encode(j, include_hybrid_time)) > 0

C4_Witness ==
  /\ op = "SubDocKey::AdvanceOutOfSubDoc"
  /\ has_hybrid_time(key)
  /\ Len(key.subkeys) >= 1
  /\ out.bytes[Len(out.bytes)] = kMaxByte

\* The keys that sort after k when the hybrid time is ignored and are not
\* nested under k.
AfterAndOutside(k) ==
  {j \in SubDocKeys :
     /\ j.doc_key.hash_present = k.doc_key.hash_present
     /\ ~StartsWith(j, WithoutHt(k))
     /\ CompareToIgnoreHt(j, k) > 0}

\* C5: AdvanceOutOfSubDoc skips nothing outside the sub-document: every key
\* that is not nested under the key and sorts after it encodes to bytes not
\* less than the sentinel.
C5_SentinelSkipsNothing ==
  op = "SubDocKey::AdvanceOutOfSubDoc" =>
    \A j \in AfterAndOutside(key) : \A include_hybrid_time \in BOOLEAN :
      ByteCompare(Encode(j, include_hybrid_time), out.bytes) >= 0

C5_Witness ==
  /\ op = "SubDocKey::AdvanceOutOfSubDoc"
  /\ Len(key.subkeys) >= 1
  /\ \E j \in AfterAndOutside(key) :
       /\ SameDocKey(j.doc_key, key.doc_key)
       /\ Len(j.subkeys) = Len(key.subkeys)

\* The keys whose DocKey has k's hash and hashed group and a range group
\* that starts with k's.
SharingDocKeyPrefix(k) ==
  {SubDocKey([k.doc_key EXCEPT !.range_group = @ \o ext], sk, ht) :
     ext \in Groups, sk \in Groups, ht \in DocHts}

\* C6: AdvanceOutOfDocKeyPrefix is the DocKey's encoding with the final
\* GroupEnd replaced by MaxByte, whatever the subkeys and the hybrid time,
\* and compares greater than the encoding of every key that shares the hash,
\* the hashed group and the leading range components.
C6_SentinelAfterDocKeyPrefix ==
  op = "SubDocKey::AdvanceOutOfDocKeyPrefix" =>
    /\ Len(out.bytes) = Len(DocKeyEncode(key.doc_key))
    /\ \A i \in 1..Len(out.bytes) :
         out.bytes[i] = IF i = Len(out.bytes) THEN kMaxByte
                        ELSE DocKeyEncode(key.doc_key)[i]
    /\ DocKeyEncode(key.doc_key)[Len(out.bytes)] = kGroupEnd
    /\ \A sk \in Groups, ht \in DocHts :
         AdvanceOutOfDocKeyPrefix(SubDocKey(key.doc_key, sk, ht)) = out.bytes
    /\ \A j \in SharingDocKeyPrefix(key) : \A include_hybrid_time \in BOOLEAN :
         ByteCompare(out.bytes, Encode(j, include_hybrid_time)) > 0

C6_Witness ==
  /\ op = "SubDocKey::AdvanceOutOfDocKeyPrefix"
  /\ key.doc_key.hash_present
  /\ Len(key.doc_key.range_group) >= 1
  /\ Len(key.subkeys) >= 1
  /\ has_hybrid_time(key)

\* The keys of the model in key k's partition: hash present, k's hash and
\* hashed group.
SamePartition(k) ==
  {j \in SubDocKeys :
     /\ j.doc_key.hash_present
     /\ j.doc_key.hash = k.doc_key.hash
     /\ j.doc_key.hashed_group = k.doc_key.hashed_group}

\* C7: the encodings of two keys with hash present, the same hash and the
\* same hashed group are projected by Transform to the same bytes, whatever
\* their range group, subkeys and hybrid time.
C7_BloomProjection ==
  (op = "HashedComponentsExtractor::Transform" /\ key.doc_key.hash_present) =>
    /\ out.ok
    /\ \A j \in SamePartition(key) : \A include_hybrid_time \in BOOLEAN :
         \A oob \in OutOfBoundsBytes :
           Transform(Encode(j, include_hybrid_time), oob) = [ok |-> TRUE, key |-> out.key]

C7_Witness ==
  /\ op = "HashedComponentsExtractor::Transform"
  /\ key.doc_key.hash_present
  /\ Len(key.doc_key.hashed_group) >= 1
  /\ Len(key.doc_key.range_group) >= 1
  /\ out.ok
  /\ \E j \in SamePartition(key) : j.doc_key.range_group # key.doc_key.range_group

\* C8: for a prefix without hybrid time, StartsWith is true exactly when the
\* doc_keys are equal and the prefix's subkeys are a leading run of the
\* key's.
C8_StartsWithNoHt ==
  (op = "SubDocKey::StartsWith" /\ ~has_hybrid_time(other)) =>
    (out.result <=>
       /\ SameDocKey(key.doc_key, other.doc_key)
       /\ LeadingRun(other.subkeys, key.subkeys))

C8_Witness ==
  /\ op = "SubDocKey::StartsWith"
  /\ ~has_hybrid_time(other)
  /\ has_hybrid_time(key)
  /\ Len(other.subkeys) = 1
  /\ Len(key.subkeys) = 2
  /\ out.result

\* C9: for a prefix with a hybrid time, StartsWith is true exactly when the
\* two keys are equal: doc_key, subkeys and hybrid time.
C9_StartsWithHt ==
  (op = "SubDocKey::StartsWith" /\ has_hybrid_time(other)) =>
    (out.result <=>
       /\ SameDocKey(key.doc_key, other.doc_key)
       /\ key.subkeys = other.subkeys
       /\ key.doc_ht = other.doc_ht)

C9_Witness ==
  /\ op = "SubDocKey::StartsWith"
  /\ has_hybrid_time(other)
  /\ key.doc_ht = other.doc_ht
  /\ SameDocKey(key.doc_key, other.doc_key)
  /\ Len(other.subkeys) < Len(key.subkeys)
  /\ LeadingRun(other.subkeys, key.subkeys)
  /\ ~out.result

\* The indexes, counted from 1, at which the subkeys of a and b differ, up
\* to the shorter length.
Mismatches(a, b) ==
  {i \in 1..Min(Len(a.subkeys), Len(b.subkeys)) : a.subkeys[i] # b.subkeys[i]}

\* What C10 expects: 0 for different doc_keys, else the first mismatch
\* counted from 1, else the shorter length plus 1.
SharedExpected(a, b) ==
  IF ~SameDocKey(a.doc_key, b.doc_key) THEN 0
  ELSE IF Mismatches(a, b) = {} THEN Min(Len(a.subkeys), Len(b.subkeys)) + 1
  ELSE CHOOSE i \in Mismatches(a, b) : \A j \in Mismatches(a, b) : i <= j

\* C10: NumSharedPrefixComponents is 0 for different doc_keys, else the
\* index of the first differing subkey plus 1, else the shorter subkey count
\* plus 1; it ignores the hybrid times and is symmetric.
C10_NumShared ==
  op = "SubDocKey::NumSharedPrefixComponents" =>
    /\ out.result = SharedExpected(key, other)
    /\ NumSharedPrefixComponents(other, key) = out.result
    /\ \A h1 \in DocHts, h2 \in DocHts :
         NumSharedPrefixComponents([key EXCEPT !.doc_ht = h1],
                                   [other EXCEPT !.doc_ht = h2]) = out.result

C10_Witness ==
  /\ op = "SubDocKey::NumSharedPrefixComponents"
  /\ SameDocKey(key.doc_key, other.doc_key)
  /\ Len(key.subkeys) = 2
  /\ Len(other.subkeys) = 2
  /\ key.subkeys[1] = other.subkeys[1]
  /\ key.subkeys[2] # other.subkeys[2]
  /\ key.doc_ht # other.doc_ht
  /\ out.result = 2

\* The primitive encodings of items, one after the other.
RECURSIVE ItemEncodings(_)
ItemEncodings(items) ==
  IF items = <<>> THEN <<>>
  ELSE ItemEncodings(SubSeq(items, 1, Len(items) - 1))
       \o AppendToKey(items[Len(items)])

\* C11: DocKey::Encode writes, when the hash is present, the UInt16Hash tag,
\* the hash as two bytes big-endian, the hashed items in order and
\* GroupEnd, and then always the range items in order and GroupEnd; without
\* a hash the output has no hash tag and one GroupEnd-terminated group.
C11_EncodeLayout ==
  op = "DocKey::Encode" =>
    /\ key.doc_key.hash_present =>
         out.bytes = <<kUInt16Hash, key.doc_key.hash \div 256, key.doc_key.hash % 256>>
                     \o ItemEncodings(key.doc_key.hashed_group) \o <<kGroupEnd>>
                     \o ItemEncodings(key.doc_key.range_group) \o <<kGroupEnd>>
    /\ ~key.doc_key.hash_present =>
         /\ out.bytes = ItemEncodings(key.doc_key.range_group) \o <<kGroupEnd>>
         /\ out.bytes[1] # kUInt16Hash
         /\ ConsumePrimitiveValuesFromKey(out.bytes, <<>>, <<>>).status = "OK"
         /\ ConsumePrimitiveValuesFromKey(out.bytes, <<>>, <<>>).rest = <<>>

C11_Witness ==
  /\ op = "DocKey::Encode"
  /\ key.doc_key.hash_present
  /\ key.doc_key.hash = 256
  /\ Len(key.doc_key.hashed_group) >= 1
  /\ Len(key.doc_key.range_group) >= 1
  /\ out.bytes[2] = 1
  /\ out.bytes[3] = 0

\* C12: FullyDecodeFrom of Encode(true) of a key with a hybrid time, the
\* hybrid time required, returns OK and the key itself; FullyDecodeFrom of
\* Encode(false) of any key, the hybrid time not required, returns OK and the
\* key's doc_key and subkeys, in number and order, with no hybrid time.
C12_SubDocKeyRoundTrip ==
  op = "SubDocKey::FullyDecodeFrom" =>
    /\ out.bytes = Encode(key, out.include_hybrid_time)
    /\ (has_hybrid_time(key) /\ out.include_hybrid_time /\ out.require_hybrid_time) =>
         /\ out.status = "OK"
         /\ out.rest = <<>>
         /\ SameDocKey(other.doc_key, key.doc_key)
         /\ other.subkeys = key.subkeys
         /\ other.doc_ht = key.doc_ht
    /\ (~out.include_hybrid_time /\ ~out.require_hybrid_time) =>
         /\ out.status = "OK"
         /\ out.rest = <<>>
         /\ SameDocKey(other.doc_key, key.doc_key)
         /\ other.subkeys = key.subkeys
         /\ other.doc_ht = kInvalidHt

C12_Witness ==
  /\ op = "SubDocKey::FullyDecodeFrom"
  /\ has_hybrid_time(key) /\ out.include_hybrid_time /\ out.require_hybrid_time
  /\ Len(key.subkeys) = 2
  /\ key.subkeys[1] # key.subkeys[2]
  /\ out.status = "OK"
  /\ other.subkeys = key.subkeys
  /\ other.doc_ht = key.doc_ht

\* The operations that decode a slice.
Decoders ==
  {"DocKey::DecodeFrom", "DocKey::FullyDecodeFrom", "DocKey::EncodedSize",
   "SubDocKey::DecodeFrom", "SubDocKey::FullyDecodeFrom"}

\* C13: on an empty slice DocKey::DecodeFrom, DocKey::FullyDecodeFrom,
\* DocKey::EncodedSize, SubDocKey::DecodeFrom and SubDocKey::FullyDecodeFrom
\* fail with Corruption.
C13_EmptyIsCorruption ==
  (op \in Decoders /\ out.bytes = <<>>) => out.status = "Corruption"

C13_Witness ==
  /\ op = "SubDocKey::FullyDecodeFrom"
  /\ out.bytes = <<>>
  /\ ~out.require_hybrid_time
  /\ out.status = "Corruption"

\* A slice that ends before a complete DocKey: an optional intent prefix
\* byte and a proper leading part of a DocKey's encoding (the intent prefix
\* alone, a hash tag with fewer than two bytes after it, a run of components
\* with no closing GroupEnd).
EndsBeforeDocKey(bytes) ==
  /\ bytes # <<>>
  /\ \E p \in {<<>>, <<kIntentPrefix>>}, k \in DocKeys :
       \E n \in 0..(Len(DocKeyEncode(k)) - 1) :
         bytes = p \o SubSeq(DocKeyEncode(k), 1, n)

\* C14: on a slice that ends before a complete DocKey, DocKey::DecodeFrom
\* returns Corruption and reads no byte at or beyond the end of the slice.
C14_TruncatedIsCorruption ==
  ( /\ op = "DocKey::DecodeFrom"
    /\ out.part_to_decode = WHOLE_DOC_KEY
    /\ EndsBeforeDocKey(out.bytes) ) =>
    /\ out.status = "Corruption"
    /\ ~out.read_past_end

\* C15: DocKey::FullyDecodeFrom and SubDocKey::FullyDecodeFrom return OK only
\* when DecodeFrom succeeded and left no byte of the slice; when DecodeFrom
\* succeeded and bytes are left they return InvalidArgument.
C15_FullyDecodeWantsAllBytes ==
  op \in {"DocKey::FullyDecodeFrom", "SubDocKey::FullyDecodeFrom"} =>
    /\ out.status = "OK" => (out.decoded = "OK" /\ out.rest = <<>>)
    /\ (out.decoded = "OK" /\ out.rest # <<>>) => out.status = "InvalidArgument"

C15_Witness ==
  /\ op = "DocKey::FullyDecodeFrom"
  /\ out.decoded = "OK"
  /\ other.hash_present
  /\ Len(other.range_group) >= 1
  /\ out.rest = <<kMaxByte>>
  /\ out.status = "InvalidArgument"

\* C16: when DecodeFrom fails on a malformed slice, DocKey::FullyDecodeFrom
\* and SubDocKey::FullyDecodeFrom return Corruption, also when bytes of the
\* slice are left undecoded; they return InvalidArgument only after a
\* successful decode.
C16_MalformedIsCorruption ==
  op \in {"DocKey::FullyDecodeFrom", "SubDocKey::FullyDecodeFrom"} =>
    /\ out.decoded = "Corruption" => out.status = "Corruption"
    /\ out.status = "InvalidArgument" => out.decoded = "OK"

\* The keys of the model that carry no hybrid time.
NoHtKeys == {k \in SubDocKeys : ~has_hybrid_time(k)}

\* The slices that end after a key's DocKey and subkeys, each with its key.
ExhaustedSlices ==
  {[bytes |-> p \o Encode(k, FALSE), key |-> k] :
     k \in NoHtKeys, p \in {<<>>, <<kIntentPrefix>>}}

\* The slices that go on after a key's DocKey and subkeys with a hybrid time
\* ht and then with t, each with its key.
TimestampedSlices ==
  {[bytes |-> p \o Encode([k EXCEPT !.doc_ht = ht], TRUE) \o t,
    key |-> k, ht |-> ht, rest |-> t] :
     k \in NoHtKeys, p \in {<<>>, <<kIntentPrefix>>},
     ht \in HybridTimes, t \in TrailingBytes}

\* C17: SubDocKey::DecodeFrom on a slice that ends after the DocKey and the
\* subkeys returns OK with the invalid hybrid time when none is required and
\* Corruption when one is required; on a slice that goes on, the HybridTime
\* tag is consumed and the hybrid time decoded into the key, required or not.
C17_HybridTimeAtEnd ==
  op = "SubDocKey::DecodeFrom" =>
    /\ \A s \in ExhaustedSlices :
         s.bytes = out.bytes =>
           IF out.require_hybrid_time
             THEN out.status = "Corruption"
             ELSE /\ out.status = "OK"
                  /\ out.rest = <<>>
                  /\ other.subkeys = s.key.subkeys
                  /\ other.doc_ht = kInvalidHt
    /\ \A s \in TimestampedSlices :
         s.bytes = out.bytes =>
           /\ out.status = "OK"
           /\ out.rest = s.rest
           /\ other.subkeys = s.key.subkeys
           /\ other.doc_ht = s.ht

C17_Witness ==
  /\ op = "SubDocKey::DecodeFrom"
  /\ ~out.require_hybrid_time
  /\ out.status = "OK"
  /\ Len(other.subkeys) >= 1
  /\ other.doc_ht = 1
  /\ out.rest = <<kMaxByte>>

\* The slices made of one intent prefix byte and a DocKey's encoding, each
\* with its key.
IntentSlices ==
  {[bytes |-> <<kIntentPrefix>> \o DocKeyEncode(k), key |-> k] : k \in DocKeys}

\* C18: DocKey::DecodeFrom on an intent prefix byte followed by a DocKey's
\* encoding returns OK, yields the key and consumes every byte, the prefix
\* included; on a slice that starts with two intent prefix bytes it returns
\* Corruption.
C18_IntentPrefix ==
  (op = "DocKey::DecodeFrom" /\ out.part_to_decode = WHOLE_DOC_KEY) =>
    /\ \A s \in IntentSlices :
         s.bytes = out.bytes =>
           /\ out.status = "OK"
           /\ out.rest = <<>>
           /\ SameDocKey(other, s.key)
    /\ (/\ Len(out.bytes) >= 2
        /\ out.bytes[1] = kIntentPrefix
        /\ out.bytes[2] = kIntentPrefix) => out.status = "Corruption"

C18_Witness ==
  /\ op = "DocKey::DecodeFrom"
  /\ out.part_to_decode = WHOLE_DOC_KEY
  /\ out.status = "OK"
  /\ out.bytes[1] = kIntentPrefix
  /\ out.rest = <<>>
  /\ other.hash_present
  /\ Len(other.hashed_group) >= 1
  /\ Len(other.range_group) >= 1

\* The slices made of an optional intent prefix byte and a key's encoding,
\* each with its key and the size of its hashed part: the intent prefix
\* byte and, for a key with a hash, the tag, the two hash bytes, the hashed
\* items and their GroupEnd.
HashedPartSlices ==
  {[bytes |-> p \o Encode(k, include_hybrid_time),
    key |-> k,
    size |-> Len(p) + IF k.doc_key.hash_present
                        THEN 3 + Len(ItemEncodings(k.doc_key.hashed_group)) + 1
                        ELSE 0] :
     k \in SubDocKeys, include_hybrid_time \in BOOLEAN,
     p \in {<<>>, <<kIntentPrefix>>}}

\* The number of leading intent prefix bytes DoDecode skips.
SkippedIntent(bytes) == IF bytes # <<>> /\ bytes[1] = kIntentPrefix THEN 1 ELSE 0

\* C19: with HASHED_PART_ONLY, DocKey::DecodeFrom consumes the optional
\* intent prefix byte and, where the hash tag follows, the tag, the two hash
\* bytes, the hashed items and their GroupEnd; with no hash it consumes
\* nothing more.  It consumes no byte of the range group and leaves
\* range_group empty, and DocKey::EncodedSize returns the same count.
C19_HashedPartOnly ==
  /\ (op = "DocKey::DecodeFrom" /\ out.part_to_decode = HASHED_PART_ONLY) =>
       /\ other.range_group = <<>>
       /\ \A s \in HashedPartSlices :
            s.bytes = out.bytes =>
              /\ out.status = "OK"
              /\ Len(out.bytes) - Len(out.rest) = s.size
              /\ out.rest = DropFirst(out.bytes, s.size)
              /\ other.hash_present = s.key.doc_key.hash_present
              /\ other.hashed_group = s.key.doc_key.hashed_group
       /\ ( /\ out.status = "OK"
            /\ Len(out.bytes) > SkippedIntent(out.bytes)
            /\ out.bytes[SkippedIntent(out.bytes) + 1] # kUInt16Hash ) =>
              Len(out.bytes) - Len(out.rest) = SkippedIntent(out.bytes)
  /\ (op = "DocKey::EncodedSize" /\ out.part = HASHED_PART_ONLY) =>
       /\ \A s \in HashedPartSlices :
            s.bytes = out.bytes => (out.status = "OK" /\ out.size = s.size)
       /\ ( /\ out.status = "OK"
            /\ Len(out.bytes) > SkippedIntent(out.bytes)
            /\ out.bytes[SkippedIntent(out.bytes) + 1] # kUInt16Hash ) =>
              out.size = SkippedIntent(out.bytes)

C19_Witness ==
  /\ op = "DocKey::EncodedSize"
  /\ out.part = HASHED_PART_ONLY
  /\ out.status = "OK"
  /\ \E s \in HashedPartSlices :
       /\ s.bytes = out.bytes
       /\ s.bytes[1] = kIntentPrefix
       /\ s.key.doc_key.hash_present
       /\ Len(s.key.doc_key.hashed_group) >= 1
       /\ Len(s.key.doc_key.range_group) >= 1
       /\ out.size = s.size
       /\ out.size < Len(out.bytes)

\* The indexes at which the items of x and y differ in their own order, up
\* to the shorter length.
Differing(x, y) ==
  {i \in 1..Min(Len(x), Len(y)) : PrimitiveCompareTo(x[i], y[i]) # 0}

\* The order of two groups element by element: the first differing items
\* decide, else the shorter group sorts first.
ElementWise(x, y) ==
  IF Differing(x, y) = {} THEN Sign(Len(x) - Len(y))
  ELSE Sign(PrimitiveCompareTo(
              x[CHOOSE i \in Differing(x, y) : \A j \in Differing(x, y) : i <= j],
              y[CHOOSE i \in Differing(x, y) : \A j \in Differing(x, y) : i <= j]))

\* The lexicographic order on (hash, hashed_group, range_group) of two
\* DocKeys with equal hash_present; the hash counts where it is present.
Lexicographic(a, b) ==
  IF a.hash_present /\ a.hash # b.hash THEN (IF a.hash < b.hash THEN -1 ELSE 1)
  ELSE IF ElementWise(a.hashed_group, b.hashed_group) # 0
    THEN ElementWise(a.hashed_group, b.hashed_group)
  ELSE ElementWise(a.range_group, b.range_group)

\* DocKeys of constructors and factories, as third keys for transitivity.
BuiltDocKeys ==
  DocKeys
  \cup {FromKuduEncodedKey(columns, n, u) :
          u \in UninitHashes,
          <<columns, n>> \in {x \in KuduEncodedKeys \X (0..MaxComponents) :
                                x[2] <= Len(x[1])}}
  \cup {FromRedisKey(hash, redis_key) : hash \in Hashes, redis_key \in RedisKeys}

\* C20: on DocKeys with equal hash_present, CompareTo is the lexicographic
\* order on (hash, hashed_group, range_group), antisymmetric and transitive,
\* and it returns 0 exactly when operator== holds, for every DocKey the
\* constructors, factories, decoders and mutators build.
C20_CompareToIsOrder ==
  op = "DocKey::CompareTo" =>
    /\ Sign(out.result) = Lexicographic(key, other)
    /\ Sign(DocKeyCompareTo(other, key)) = -Sign(out.result)
    /\ \A c \in BuiltDocKeys :
         ( /\ c.hash_present = key.hash_present
           /\ out.result <= 0
           /\ DocKeyCompareTo(other, c) <= 0 ) => DocKeyCompareTo(key, c) <= 0
    /\ (out.result = 0) <=> out.equal

\* The primitive value a Kudu column's raw value becomes.
ColumnValue(column) ==
  IF column.type \in {"STRING", "BINARY"} THEN String(column.value)
  ELSE Int32(column.value)

\* C21: FromKuduEncodedKey puts the first num_hash_key_columns column values
\* in hashed_group and the rest in range_group, and with at least one hash
\* column the key has hash_present and a hash that is determined by the
\* hash columns, whatever their types.
C21_FromKuduEncodedKey ==
  op = "DocKey::FromKuduEncodedKey" =>
    /\ key.hashed_group =
         [i \in 1..out.num_hash_key_columns |-> ColumnValue(out.columns[i])]
    /\ key.range_group =
         [i \in 1..(Len(out.columns) - out.num_hash_key_columns) |->
            ColumnValue(out.columns[out.num_hash_key_columns + i])]
    /\ out.num_hash_key_columns >= 1 =>
         /\ key.hash_present
         /\ \A u \in UninitHashes :
              FromKuduEncodedKey(out.columns, out.num_hash_key_columns, u).hash = key.hash

\* The raw hex rendering of a byte string.
ToDebugHexString(bytes) == [text |-> "hex", bytes |-> bytes]

\* C22: DebugSliceToString decodes with the hybrid time not required; when
\* that succeeds with no byte left it returns the key's textual form, and on
\* every failure, trailing bytes included, the raw hex rendering of the
\* input.
C22_DebugSliceToString ==
  op = "SubDocKey::DebugSliceToString" =>
    /\ out.decoded = "OK" => out.text = SubDocKeyToString(other)
    /\ out.decoded # "OK" => out.text = ToDebugHexString(out.bytes)

\* The hashed part of the encoding of a key with DocKey k: the hash tag,
\* the hash and the hashed group with its GroupEnd, or nothing.
HashedPart(k) ==
  IF k.hash_present
    THEN <<kUInt16Hash, k.hash \div 256, k.hash % 256>>
         \o ItemEncodings(k.hashed_group) \o <<kGroupEnd>>
    ELSE <<>>

\* What a thread that has returned holds: the projection of its own key,
\* as a call that runs alone returns it, and the one instance.
ReturnedAlone ==
  \A t \in Threads :
    /\ op[t] # "aborted"
    /\ op[t] = "returned" =>
         /\ out[t].result = HashedPart(key[t])
         /\ \A oob \in OutOfBoundsBytes :
              Transform(Argument(t), oob) = [ok |-> TRUE, key |-> out[t].result]
    /\ op[t] # "idle" => out[t].transformer = other

\* C23: GetKeyTransformer gives every thread the same instance, and under
\* every interleaving of Transform calls each call returns the projection of
\* its own key, as when it runs alone; once constructed the instance is
\* never written.
C23_ConcurrentTransform ==
  /\ []ReturnedAlone
  /\ [][other.constructed => other' = other]_vars

C23_Witness ==
  /\ op[1] = "returned"
  /\ op[2] = "CHECK_OK"
  /\ key[1].hash_present /\ key[2].hash_present
  /\ key[1].hashed_group # key[2].hashed_group
  /\ out[1].result # <<>>
  /\ out[2].size.size # out[1].size.size

\* C24: in SubDocKey::DoDecode, when the DocKey and the subkeys decode, the
\* subkey loop leaves either nothing or bytes that start with the HybridTime
\* tag, so the DCHECK_EQ holds; the loop has consumed the encodings of the
\* subkeys it added, one per turn, none of them starting with the
\* HybridTime tag, and the turn that ends it consumes nothing.
C24_SubkeyLoop ==
  op = "SubDocKey::DecodeFrom" =>
    /\ out.loop.dcheck
    /\ out.loop.status = "OK" =>
         /\ out.loop.after = <<>> \/ Head(out.loop.after) = kHybridTime
         /\ out.loop.before = ItemEncodings(out.loop.subkeys) \o out.loop.after
         /\ \A i \in 1..Len(out.loop.subkeys) :
              AppendToKey(out.loop.subkeys[i])[1] # kHybridTime

C24_Witness ==
  /\ op = "SubDocKey::DecodeFrom"
  /\ out.loop.status = "OK"
  /\ Len(out.loop.subkeys) = 2
  /\ out.loop.after # <<>>
  /\ Head(out.loop.after) = kHybridTime
  /\ out.status = "OK"

\* C25: for SubDocKeys that both carry a hybrid time and whose DocKeys have
\* equal hash_present, the sign of CompareTo is the sign of the byte
\* comparison of the two Encode(true), also where the subkeys of one are a
\* strict leading run of the other's.
C25_SubDocKeyOrderPreserved ==
  (op = "SubDocKey::CompareTo" /\ has_hybrid_time(key) /\ has_hybrid_time(other)) =>
    Sign(out.result) = ByteCompare(Encode(key, TRUE), Encode(other, TRUE))

C25_Witness ==
  /\ op = "SubDocKey::CompareTo"
  /\ has_hybrid_time(key) /\ has_hybrid_time(other)
  /\ SameDocKey(key.doc_key, other.doc_key)
  /\ Len(key.subkeys) = 1
  /\ Len(other.subkeys) = 2
  /\ LeadingRun(key.subkeys, other.subkeys)
  /\ key.doc_ht < other.doc_ht
  /\ out.result < 0

\* C26: every DocKey built by the constructors, FromKuduEncodedKey,
\* FromRedisKey and DecodeFrom and changed by Clear, ClearRangeComponents and
\* AddRangeComponent has hash_present when its hashed_group is not empty, so
\* its encoding holds every hashed component.
C26_HashedGroupNeedsHash ==
  op # "init" =>
    /\ key.hashed_group # <<>> => key.hash_present
    /\ LeadingRun(ItemEncodings(key.hashed_group),
                  DropFirst(DocKeyEncode(key), IF key.hashed_group # <<>> THEN 3 ELSE 0))

\* One span per item: the item's encoding, tag and payload.
ItemSpans(items) == [i \in 1..Len(items) |-> AppendToKey(items[i])]

\* C27: DocKey::PartiallyDecode appends one span per range component, in
\* order, each the component's encoding, and none for the hash and the
\* hashed components; SubDocKey::PartiallyDecode appends these, none for a
\* subkey, and last a span of the hybrid time's payload without the tag,
\* and fails with Corruption on a key without hybrid time.  Spans the
\* output held before are kept.
C27_PartiallyDecodeSpans ==
  /\ op = "DocKey::PartiallyDecode" =>
       /\ out.status = "OK"
       /\ out.rest = <<>>
       /\ out.spans = out.before \o ItemSpans(key.doc_key.range_group)
  /\ op = "SubDocKey::PartiallyDecode" =>
       IF has_hybrid_time(key) /\ out.include_hybrid_time
         THEN /\ out.status = "OK"
              /\ out.rest = <<>>
              /\ out.spans = out.before \o ItemSpans(key.doc_key.range_group)
                                        \o <<Tail(AppendDocHybridTime(key.doc_ht))>>
         ELSE /\ out.status = "Corruption"
              /\ LeadingRun(out.before, out.spans)

C27_Witness ==
  /\ op = "SubDocKey::PartiallyDecode"
  /\ has_hybrid_time(key) /\ out.include_hybrid_time
  /\ key.doc_key.hash_present
  /\ Len(key.doc_key.hashed_group) >= 1
  /\ Len(key.doc_key.range_group) >= 1
  /\ Len(out.before) = 1
  /\ Len(out.spans) = 3
  /\ out.status = "OK"

\* The range group a sequence of calls should leave, from the group at its
\* start: emptied by ClearRangeComponents, extended by AddRangeComponent.
RECURSIVE RangeGroupAfter(_, _)
RangeGroupAfter(range_group, calls) ==
  IF calls = <<>> THEN range_group
  ELSE RangeGroupAfter(IF Head(calls).name = "ClearRangeComponents"
                         THEN <<>>
                         ELSE Append(range_group, Head(calls).val),
                       Tail(calls))

\* C28: a sequence of AddRangeComponent and ClearRangeComponents calls
\* leaves hash_present, hash and hashed_group as they were and the range
\* group as of the last ClearRangeComponents (or of the start) followed by
\* the components added since; after Clear the key has no hash and empty
\* groups and equals a default-constructed DocKey.
C28_MutatorsFrame ==
  /\ op \in {"DocKey::AddRangeComponent", "DocKey::ClearRangeComponents"} =>
       /\ key.hash_present = other.hash_present
       /\ key.hash = other.hash
       /\ key.hashed_group = other.hashed_group
       /\ key.range_group = RangeGroupAfter(other.range_group, out.calls)
  /\ op = "DocKey::Clear" =>
       /\ ~key.hash_present
       /\ key.hashed_group = <<>>
       /\ key.range_group = <<>>
       /\ \A u \in UninitHashes : DocKeyEquals(key, DocKeyEmpty(u))

C28_Witness ==
  /\ op = "DocKey::AddRangeComponent"
  /\ Len(out.calls) = 3
  /\ out.calls[1].name = "AddRangeComponent"
  /\ out.calls[2].name = "ClearRangeComponents"
  /\ other.hash_present
  /\ other.hashed_group # <<>>
  /\ other.range_group # <<>>
  /\ key.range_group = <<out.calls[3].val>>

\* C29: what DecodeFrom leaves in a DocKey or SubDocKey and the status it
\* returns depend on the input bytes and the decode parameters only, not on
\* what the key held before: decoding one input into two keys gives equal
\* keys and equal statuses, on success and on failure.
C29_DecodeFromForgetsPriorState ==
  op \in {"DocKey::DecodeFrom", "SubDocKey::DecodeFrom"} =>
    /\ key = other
    /\ out.status = out.other_status
    /\ out.rest = out.other_rest

\* What Transform returns for the encodings of the keys with hash present,
\* with the partition of each: its hash and hashed group.
Projections ==
  {[hash |-> j.doc_key.hash, hashed_group |-> j.doc_key.hashed_group,
    key |-> Transform(Encode(j, include_hybrid_time), oob).key] :
     j \in {k \in SubDocKeys : k.doc_key.hash_present},
     include_hybrid_time \in BOOLEAN, oob \in OutOfBoundsBytes}

\* C30: Transform succeeds on every encoding of a SubDocKey and returns a
\* leading run of it, and the encodings of two keys with hash present
\* whose hash or hashed group differ are projected to different bytes.
C30_ProjectionSeparatesPartitions ==
  op = "HashedComponentsExtractor::Transform" =>
    /\ out.ok
    /\ LeadingRun(out.key, out.bytes)
    /\ key.doc_key.hash_present =>
         \A p \in Projections :
           (p.hash # key.doc_key.hash \/ p.hashed_group # key.doc_key.hashed_group)
             => p.key # out.key

C30_Witness ==
  /\ op = "HashedComponentsExtractor::Transform"
  /\ out.ok
  /\ key.doc_key.hash_present
  /\ Len(key.doc_key.hashed_group) = 1
  /\ Len(out.key) < Len(out.bytes)
  /\ \E p \in Projections :
       /\ p.hash = key.doc_key.hash
       /\ Len(p.hashed_group) = 1
       /\ p.hashed_group # key.doc_key.hashed_group

=============================================================================
